---- MODULE Spec2Model ----
(***************************************************************************)
(* PyChess / PGChess: the chess rules core (board, context, move           *)
(* validation, move execution, StateManager) and the drag-and-drop Game    *)
(* that drives it, as a state machine.                                     *)
(*                                                                         *)
(* Squares are <<row, col>> pairs as in the source (x = row, y = column;   *)
(* row 0 is Dark's home rank, row 7 Light's).  Pieces are the source's     *)
(* two-character codes ("kl", "pd", ...); "" is an empty square.           *)
(* A Python list of squares is modelled as a set of squares: the source    *)
(* only tests such lists for membership and for emptiness.                 *)
(***************************************************************************)
EXTENDS Integers, Sequences, FiniteSets, TLC

BOARD_WIDTH == 8
BOARD_HEIGHT == 8

Idx == 0 .. 7
Squares == Idx \X Idx
None == << >>

LightCodes == {"kl", "ql", "rl", "bl", "nl", "pl"}
DarkCodes == {"kd", "qd", "rd", "bd", "nd", "pd"}
Piece == LightCodes \cup DarkCodes
CodesOfKind == [k |-> {"kl", "kd"}, q |-> {"ql", "qd"}, r |-> {"rl", "rd"},
                b |-> {"bl", "bd"}, n |-> {"nl", "nd"}, p |-> {"pl", "pd"}]
KingOf == [l |-> "kl", d |-> "kd"]
RookOf == [l |-> "rl", d |-> "rd"]

\* str.startswith for a one-letter prefix of a piece code
startswith(piece_code, ch) == piece_code \in CodesOfKind[ch]

\* Python list indexing: a negative index counts from the end
PyIndex(i) == IF i < 0 THEN i + 8 ELSE i

(***************************************************************************)
(* move_utils                                                              *)
(***************************************************************************)
\* 'l' if the code contains an 'l', else 'd' (so '' and 'd' give 'd')
get_piece_color(piece_code) ==
    IF piece_code \in LightCodes \cup {"l"} THEN "l" ELSE "d"

is_same_color(piece_code_a, piece_code_b) ==
    get_piece_color(piece_code_a) = get_piece_color(piece_code_b)

in_bounds_x(x) == 0 <= x /\ x < BOARD_WIDTH
in_bounds_y(y) == 0 <= y /\ y < BOARD_HEIGHT
in_bounds(x, y) == in_bounds_x(x) /\ in_bounds_y(y)

(***************************************************************************)
(* GameState: the 8x8 board                                                *)
(***************************************************************************)
get_piece(game_state, x, y) == game_state[PyIndex(x)][PyIndex(y)]
set_piece(game_state, x, y, piece_code) ==
    [game_state EXCEPT ![PyIndex(x)][PyIndex(y)] = piece_code]
clear_square(game_state, x, y) == set_piece(game_state, x, y, "")
\* no code with the reserved '+' marker prefix is ever stored on the board
is_piece_at(game_state, x, y) == get_piece(game_state, x, y) # ""

EmptyRow == [y \in Idx |-> ""]
EmptyBoard == [x \in Idx |-> EmptyRow]
RowOf(s) == [y \in Idx |-> s[y + 1]]
_starting_board ==
    [x \in Idx |->
        CASE x = 0 -> RowOf(<<"rd", "nd", "bd", "qd", "kd", "bd", "nd", "rd">>)
          [] x = 1 -> [y \in Idx |-> "pd"]
          [] x = 6 -> [y \in Idx |-> "pl"]
          [] x = 7 -> RowOf(<<"rl", "nl", "bl", "ql", "kl", "bl", "nl", "rl">>)
          [] OTHER -> EmptyRow]

(***************************************************************************)
(* GameContext                                                             *)
(***************************************************************************)
GameContext ==
    [king_moved |-> [c \in {"l", "d"} |-> FALSE],
     rook_moved |-> [c \in {"l", "d"} |-> [col \in {0, 7} |-> FALSE]],
     en_passant_target |-> None,
     is_light_turn |-> TRUE]

has_king_moved(game_context, color) == game_context.king_moved[color]
has_rook_moved(game_context, color, col) == game_context.rook_moved[color][col]
get_en_passant_target(game_context) == game_context.en_passant_target
\* faulty variant of switch_turn: the turn is handed to Dark, not toggled
switch_turn_to_dark(game_context) ==
    [game_context EXCEPT !.is_light_turn = FALSE]

switch_turn(game_context) ==
    [game_context EXCEPT !.is_light_turn = ~game_context.is_light_turn]
current_color(game_context) == IF game_context.is_light_turn THEN "l" ELSE "d"
is_turn(game_context, piece_code) ==
    LET color == get_piece_color(piece_code)
    IN  \/ game_context.is_light_turn /\ color = "l"
        \/ ~game_context.is_light_turn /\ color = "d"

(***************************************************************************)
(* move_validator                                                          *)
(***************************************************************************)
RECURSIVE get_valid_moves(_, _, _, _, _, _)
RECURSIVE _ray(_, _, _, _, _, _, _)
RECURSIVE _ray_stopping_short(_, _, _, _, _, _, _)

\* king_location starts as (0, 0) and is overwritten by every king of the
\* colour met in the row-major scan: the last one found wins
king_location(game_state, color) ==
    LET kings == {sq \in Squares : game_state[sq[1]][sq[2]] = KingOf[color]}
    IN  IF kings = {} THEN <<0, 0>>
        ELSE CHOOSE k \in kings :
                \A o \in kings : 8 * o[1] + o[2] <= 8 * k[1] + k[2]

\* faulty variant of is_in_check: an attacker counts only if taking the
\* king's square would not leave its own king attacked
is_in_check_unless_exposed(game_state, piece_code_or_color) ==
    LET color == get_piece_color(piece_code_or_color)
        kl == king_location(game_state, color)
        reaches(board, from, to) ==
            to \in get_valid_moves(board, GameContext,
                                   get_piece(board, from[1], from[2]), from[1], from[2], TRUE)
    IN  \E sq \in Squares :
            /\ is_piece_at(game_state, sq[1], sq[2])
            /\ ~is_same_color(get_piece(game_state, sq[1], sq[2]), color)
            /\ reaches(game_state, sq, kl)
            /\ LET piece == get_piece(game_state, sq[1], sq[2])
                   after == set_piece(clear_square(game_state, sq[1], sq[2]),
                                      kl[1], kl[2], piece)
                   own_king == king_location(after, get_piece_color(piece))
               IN  ~\E a \in Squares :
                       /\ is_piece_at(after, a[1], a[2])
                       /\ is_same_color(get_piece(after, a[1], a[2]), color)
                       /\ reaches(after, a, own_king)

is_in_check(game_state, piece_code_or_color) ==
    LET color == get_piece_color(piece_code_or_color)
        kl == king_location(game_state, color)
    IN  \E sq \in Squares :
            /\ is_piece_at(game_state, sq[1], sq[2])
            /\ ~is_same_color(get_piece(game_state, sq[1], sq[2]), color)
            /\ kl \in get_valid_moves(game_state, GameContext,
                        get_piece(game_state, sq[1], sq[2]), sq[1], sq[2], TRUE)

can_occupy_square(game_state, piece_code, sqx, sqy, ignore_check) ==
    IF /\ is_piece_at(game_state, sqx, sqy)
       /\ is_same_color(piece_code, get_piece(game_state, sqx, sqy))
    THEN FALSE
    ELSE IF ~ignore_check
         THEN ~is_in_check(set_piece(game_state, sqx, sqy, piece_code), piece_code)
         ELSE TRUE

\* faulty variant of _castle_path_safe: only the landing square is tested
_castle_path_safe_landing_only(game_state, king_code, row, start_col, end_col) ==
    ~is_in_check(set_piece(game_state, row, end_col, king_code), king_code)

_castle_path_safe(game_state, king_code, row, start_col, end_col) ==
    LET step == IF end_col > start_col THEN 1 ELSE -1
        cols == IF step = 1 THEN (start_col + 1) .. end_col
                ELSE end_col .. (start_col - 1)
    IN  \A col \in cols :
            ~is_in_check(set_piece(game_state, row, col, king_code), king_code)

\* faulty variant of _add_castling_moves: the rook flags are not consulted
_add_castling_moves_ignoring_rook_flags(game_state, piece_code, start_x, start_y, game_context) ==
    LET color == get_piece_color(piece_code)
        row == IF color = "l" THEN 7 ELSE 0
    IN  IF start_x # row \/ start_y # 4 THEN {}
        ELSE IF has_king_moved(game_context, color) \/ is_in_check(game_state, color)
        THEN {}
        ELSE (IF /\ get_piece(game_state, row, 7) = RookOf[color]
                 /\ ~is_piece_at(game_state, row, 5)
                 /\ ~is_piece_at(game_state, row, 6)
                 /\ _castle_path_safe(game_state, piece_code, row, 4, 6)
              THEN {<<row, 6>>} ELSE {})
             \cup
             (IF /\ get_piece(game_state, row, 0) = RookOf[color]
                 /\ ~is_piece_at(game_state, row, 1)
                 /\ ~is_piece_at(game_state, row, 2)
                 /\ ~is_piece_at(game_state, row, 3)
                 /\ _castle_path_safe(game_state, piece_code, row, 4, 2)
              THEN {<<row, 2>>} ELSE {})

_add_castling_moves(game_state, piece_code, start_x, start_y, game_context) ==
    LET color == get_piece_color(piece_code)
        row == IF color = "l" THEN 7 ELSE 0
    IN  IF start_x # row \/ start_y # 4 THEN {}
        ELSE IF has_king_moved(game_context, color) \/ is_in_check(game_state, color)
        THEN {}
        ELSE (IF /\ ~has_rook_moved(game_context, color, 7)
                 /\ get_piece(game_state, row, 7) = RookOf[color]
                 /\ ~is_piece_at(game_state, row, 5)
                 /\ ~is_piece_at(game_state, row, 6)
                 /\ _castle_path_safe(game_state, piece_code, row, 4, 6)
              THEN {<<row, 6>>} ELSE {})
             \cup
             (IF /\ ~has_rook_moved(game_context, color, 0)
                 /\ get_piece(game_state, row, 0) = RookOf[color]
                 /\ ~is_piece_at(game_state, row, 1)
                 /\ ~is_piece_at(game_state, row, 2)
                 /\ ~is_piece_at(game_state, row, 3)
                 /\ _castle_path_safe(game_state, piece_code, row, 4, 2)
              THEN {<<row, 2>>} ELSE {})

get_valid_king_moves(game_state, piece_code, start_x, start_y, ignore_check, game_context) ==
    {<<x, y>> \in ((start_x - 1) .. (start_x + 1)) \X ((start_y - 1) .. (start_y + 1)) :
        /\ in_bounds(x, y)
        /\ ~(x = start_x /\ y = start_y)
        /\ can_occupy_square(game_state, piece_code, x, y, ignore_check)}
    \cup
    (IF ~ignore_check
     THEN _add_castling_moves(game_state, piece_code, start_x, start_y, game_context)
     ELSE {})

\* faulty variant of _ray: the walk stops in front of the first occupied
\* square, so no capture is offered
_ray_stopping_short(game_state, piece_code, x, y, dx, dy, ignore_check) ==
    IF ~in_bounds(x, y) \/ is_piece_at(game_state, x, y) THEN {}
    ELSE (IF can_occupy_square(game_state, piece_code, x, y, ignore_check)
          THEN {<<x, y>>} ELSE {})
         \cup _ray_stopping_short(game_state, piece_code, x + dx, y + dy, dx, dy, ignore_check)

\* one arm of a sliding piece's walk: add the square if it can be occupied,
\* stop after the first occupied square
_ray(game_state, piece_code, x, y, dx, dy, ignore_check) ==
    IF ~in_bounds(x, y) THEN {}
    ELSE (IF can_occupy_square(game_state, piece_code, x, y, ignore_check)
          THEN {<<x, y>>} ELSE {})
         \cup
         (IF is_piece_at(game_state, x, y) THEN {}
          ELSE _ray(game_state, piece_code, x + dx, y + dy, dx, dy, ignore_check))

\* the source calls the walk along a column (row index changing) "horizontal"
_horizontal_moves(game_state, piece_code, start_x, start_y, ignore_check) ==
    _ray(game_state, piece_code, start_x - 1, start_y, -1, 0, ignore_check)
    \cup _ray(game_state, piece_code, start_x + 1, start_y, 1, 0, ignore_check)

_vertical_moves(game_state, piece_code, start_x, start_y, ignore_check) ==
    _ray(game_state, piece_code, start_x, start_y - 1, 0, -1, ignore_check)
    \cup _ray(game_state, piece_code, start_x, start_y + 1, 0, 1, ignore_check)

_diagonal_moves(game_state, piece_code, start_x, start_y, ignore_check) ==
    UNION {_ray(game_state, piece_code, start_x + d[1], start_y + d[2], d[1], d[2], ignore_check) :
            d \in {<<1, 1>>, <<1, -1>>, <<-1, -1>>, <<-1, 1>>}}

get_valid_queen_moves(game_state, piece_code, start_x, start_y, ignore_check) ==
    _horizontal_moves(game_state, piece_code, start_x, start_y, ignore_check)
    \cup _vertical_moves(game_state, piece_code, start_x, start_y, ignore_check)
    \cup _diagonal_moves(game_state, piece_code, start_x, start_y, ignore_check)

get_valid_bishop_moves(game_state, piece_code, start_x, start_y, ignore_check) ==
    _diagonal_moves(game_state, piece_code, start_x, start_y, ignore_check)

get_valid_knight_moves(game_state, piece_code, start_x, start_y, ignore_check) ==
    {<<x, y>> \in {<<start_x + 1, start_y - 2>>, <<start_x + 1, start_y + 2>>,
                   <<start_x - 1, start_y - 2>>, <<start_x - 1, start_y + 2>>,
                   <<start_x + 2, start_y - 1>>, <<start_x + 2, start_y + 1>>,
                   <<start_x - 2, start_y - 1>>, <<start_x - 2, start_y + 1>>} :
        in_bounds(x, y) /\ can_occupy_square(game_state, piece_code, x, y, ignore_check)}

get_valid_rook_moves(game_state, piece_code, start_x, start_y, ignore_check) ==
    _horizontal_moves(game_state, piece_code, start_x, start_y, ignore_check)
    \cup _vertical_moves(game_state, piece_code, start_x, start_y, ignore_check)

\* faulty variant of _add_light_pawn_moves: the two-square advance tests the
\* destination only
_add_light_pawn_moves_jumping(game_state, start_x, start_y, game_context) ==
    (IF ~is_piece_at(game_state, start_x - 1, start_y)
     THEN {<<start_x - 1, start_y>>} ELSE {})
    \cup
    (IF /\ start_x = BOARD_HEIGHT - 2
        /\ ~is_piece_at(game_state, start_x - 2, start_y)
     THEN {<<start_x - 2, start_y>>} ELSE {})
    \cup
    (IF in_bounds_y(start_y - 1) /\ is_piece_at(game_state, start_x - 1, start_y - 1)
     THEN {<<start_x - 1, start_y - 1>>} ELSE {})
    \cup
    (IF in_bounds_y(start_y + 1) /\ is_piece_at(game_state, start_x - 1, start_y + 1)
     THEN {<<start_x - 1, start_y + 1>>} ELSE {})
    \cup
    (IF get_en_passant_target(game_context) # None /\ start_x = 3
     THEN LET ep == get_en_passant_target(game_context)
              d == ep[2] - start_y
          IN  IF ep[1] = start_x - 1 /\ (d = 1 \/ d = -1) THEN {ep} ELSE {}
     ELSE {})

\* candidate squares of a light pawn; start_x - 1 may be -1, which Python
\* reads as row 7
_add_light_pawn_moves(game_state, start_x, start_y, game_context) ==
    (IF ~is_piece_at(game_state, start_x - 1, start_y)
     THEN {<<start_x - 1, start_y>>} ELSE {})
    \cup
    (IF /\ start_x = BOARD_HEIGHT - 2
        /\ ~is_piece_at(game_state, start_x - 1, start_y)
        /\ ~is_piece_at(game_state, start_x - 2, start_y)
     THEN {<<start_x - 2, start_y>>} ELSE {})
    \cup
    (IF in_bounds_y(start_y - 1) /\ is_piece_at(game_state, start_x - 1, start_y - 1)
     THEN {<<start_x - 1, start_y - 1>>} ELSE {})
    \cup
    (IF in_bounds_y(start_y + 1) /\ is_piece_at(game_state, start_x - 1, start_y + 1)
     THEN {<<start_x - 1, start_y + 1>>} ELSE {})
    \cup
    (IF get_en_passant_target(game_context) # None /\ start_x = 3
     THEN LET ep == get_en_passant_target(game_context)
              d == ep[2] - start_y
          IN  IF ep[1] = start_x - 1 /\ (d = 1 \/ d = -1) THEN {ep} ELSE {}
     ELSE {})

\* faulty variant of _add_dark_pawn_moves: the en-passant capture is not
\* tied to the pawn's rank
_add_dark_pawn_moves_any_rank(game_state, start_x, start_y, game_context) ==
    (IF ~is_piece_at(game_state, start_x + 1, start_y)
     THEN {<<start_x + 1, start_y>>} ELSE {})
    \cup
    (IF /\ start_x = 1
        /\ ~is_piece_at(game_state, start_x + 1, start_y)
        /\ ~is_piece_at(game_state, start_x + 2, start_y)
     THEN {<<start_x + 2, start_y>>} ELSE {})
    \cup
    (IF in_bounds_y(start_y - 1) /\ is_piece_at(game_state, start_x + 1, start_y - 1)
     THEN {<<start_x + 1, start_y - 1>>} ELSE {})
    \cup
    (IF in_bounds_y(start_y + 1) /\ is_piece_at(game_state, start_x + 1, start_y + 1)
     THEN {<<start_x + 1, start_y + 1>>} ELSE {})
    \cup
    (IF get_en_passant_target(game_context) # None
     THEN LET ep == get_en_passant_target(game_context)
              d == ep[2] - start_y
          IN  IF ep[1] = start_x + 1 /\ (d = 1 \/ d = -1) THEN {ep} ELSE {}
     ELSE {})

\* candidate squares of a dark pawn; only evaluated for start_x < 7
\* (on row 7 the source reads row 8 and raises IndexError, see the *_raises
\* definitions)
_add_dark_pawn_moves(game_state, start_x, start_y, game_context) ==
    (IF ~is_piece_at(game_state, start_x + 1, start_y)
     THEN {<<start_x + 1, start_y>>} ELSE {})
    \cup
    (IF /\ start_x = 1
        /\ ~is_piece_at(game_state, start_x + 1, start_y)
        /\ ~is_piece_at(game_state, start_x + 2, start_y)
     THEN {<<start_x + 2, start_y>>} ELSE {})
    \cup
    (IF in_bounds_y(start_y - 1) /\ is_piece_at(game_state, start_x + 1, start_y - 1)
     THEN {<<start_x + 1, start_y - 1>>} ELSE {})
    \cup
    (IF in_bounds_y(start_y + 1) /\ is_piece_at(game_state, start_x + 1, start_y + 1)
     THEN {<<start_x + 1, start_y + 1>>} ELSE {})
    \cup
    (IF get_en_passant_target(game_context) # None /\ start_x = 4
     THEN LET ep == get_en_passant_target(game_context)
              d == ep[2] - start_y
          IN  IF ep[1] = start_x + 1 /\ (d = 1 \/ d = -1) THEN {ep} ELSE {}
     ELSE {})

get_valid_pawn_moves(game_state, piece_code, start_x, start_y, ignore_check, game_context) ==
    LET moves == IF get_piece_color(piece_code) = "l"
                 THEN _add_light_pawn_moves(game_state, start_x, start_y, game_context)
                 ELSE IF start_x = 7 THEN {}
                 ELSE _add_dark_pawn_moves(game_state, start_x, start_y, game_context)
    IN  {m \in moves : can_occupy_square(game_state, piece_code, m[1], m[2], ignore_check)}

get_valid_moves(game_state, game_context, piece_code, start_x, start_y, ignore_check) ==
    IF startswith(piece_code, "k")
    THEN get_valid_king_moves(game_state, piece_code, start_x, start_y, ignore_check, game_context)
    ELSE IF startswith(piece_code, "q")
    THEN get_valid_queen_moves(game_state, piece_code, start_x, start_y, ignore_check)
    ELSE IF startswith(piece_code, "b")
    THEN get_valid_bishop_moves(game_state, piece_code, start_x, start_y, ignore_check)
    ELSE IF startswith(piece_code, "n")
    THEN get_valid_knight_moves(game_state, piece_code, start_x, start_y, ignore_check)
    ELSE IF startswith(piece_code, "r")
    THEN get_valid_rook_moves(game_state, piece_code, start_x, start_y, ignore_check)
    ELSE get_valid_pawn_moves(game_state, piece_code, start_x, start_y, ignore_check, game_context)

\* squares of color's pieces, and the scan order of the source's double loop
OwnSquares(game_state, color) ==
    {sq \in Squares : /\ is_piece_at(game_state, sq[1], sq[2])
                      /\ is_same_color(get_piece(game_state, sq[1], sq[2]), color)}
ScanPos(sq) == 8 * sq[1] + sq[2]

\* vacate, generate under a fresh GameContext(), restore
_has_any_legal_move(game_state, color) ==
    \E sq \in OwnSquares(game_state, color) :
        get_valid_moves(clear_square(game_state, sq[1], sq[2]), GameContext,
                        get_piece(game_state, sq[1], sq[2]), sq[1], sq[2], FALSE) # {}

is_in_checkmate(game_state, piece_code_or_color) ==
    LET color == get_piece_color(piece_code_or_color)
    IN  IF ~is_in_check(game_state, color) THEN FALSE
        ELSE ~_has_any_legal_move(game_state, color)

is_in_stalemate(game_state, piece_code_or_color) ==
    LET color == get_piece_color(piece_code_or_color)
    IN  IF is_in_check(game_state, color) THEN FALSE
        ELSE ~_has_any_legal_move(game_state, color)

(***************************************************************************)
(* IndexError paths.  A dark pawn standing on row 7 makes                  *)
(* _add_dark_pawn_moves read board[8], which raises IndexError; a light    *)
(* pawn on row 0 reads board[-1], which is row 7, and raises nothing.      *)
(* The operators above are only evaluated where these predicates are false.*)
(***************************************************************************)
is_in_check_raises(game_state, piece_code_or_color) ==
    /\ get_piece_color(piece_code_or_color) = "l"
    /\ \E y \in Idx : game_state[7][y] = "pd"

get_valid_moves_raises(game_state, game_context, piece_code, start_x, start_y) ==
    \/ piece_code = "pd" /\ start_x = 7
    \/ /\ ~(piece_code = "pd" /\ start_x = 7)
       \* only a dark pawn already on row 7 can make the checks below raise
       /\ \E y \in Idx : game_state[7][y] = "pd"
       /\ \/ \E m \in get_valid_moves(game_state, game_context, piece_code, start_x, start_y, TRUE) :
                is_in_check_raises(set_piece(game_state, m[1], m[2], piece_code), piece_code)
          \/ /\ startswith(piece_code, "k")
             /\ start_x = (IF get_piece_color(piece_code) = "l" THEN 7 ELSE 0)
             /\ start_y = 4
             /\ ~has_king_moved(game_context, get_piece_color(piece_code))
             /\ is_in_check_raises(game_state, piece_code)

\* the scan returns at the first piece with a move, so it raises only if
\* no earlier piece in scan order had one
_has_any_legal_move_raises(game_state, color) ==
    LET own == OwnSquares(game_state, color)
        raises(sq) == get_valid_moves_raises(clear_square(game_state, sq[1], sq[2]),
                          GameContext, get_piece(game_state, sq[1], sq[2]), sq[1], sq[2])
        moves(sq) == get_valid_moves(clear_square(game_state, sq[1], sq[2]),
                          GameContext, get_piece(game_state, sq[1], sq[2]), sq[1], sq[2], FALSE)
    IN  \E r \in own :
            /\ raises(r)
            /\ \A o \in own : ScanPos(o) < ScanPos(r) => (~raises(o) /\ moves(o) = {})

(***************************************************************************)
(* What the queries do to the board they are given.  get_valid_moves,      *)
(* can_occupy_square and _castle_path_safe work on copies and is_in_check  *)
(* only reads; _has_any_legal_move works in place: it takes each piece of  *)
(* the colour off the board, generates its moves and puts it back, in scan *)
(* order, and returns at the first piece that has a move.  An IndexError   *)
(* raised by the generation leaves the scan between clear_square and       *)
(* set_piece.                                                              *)
(***************************************************************************)
RECURSIVE _has_any_legal_move_scan(_, _, _)
_has_any_legal_move_scan(game_state, color, k) ==
    IF k = BOARD_WIDTH * BOARD_HEIGHT
    THEN [board |-> game_state, found |-> FALSE, raised |-> FALSE]
    ELSE LET x == k \div BOARD_HEIGHT
             y == k % BOARD_HEIGHT
             piece == get_piece(game_state, x, y)
             vacated == clear_square(game_state, x, y)
             restored == set_piece(vacated, x, y, piece)
         IN  IF is_piece_at(game_state, x, y) /\ is_same_color(piece, color)
             THEN IF get_valid_moves_raises(vacated, GameContext, piece, x, y)
                  THEN [board |-> vacated, found |-> FALSE, raised |-> TRUE]
                  ELSE IF get_valid_moves(vacated, GameContext, piece, x, y, FALSE) # {}
                  THEN [board |-> restored, found |-> TRUE, raised |-> FALSE]
                  ELSE _has_any_legal_move_scan(restored, color, k + 1)
             ELSE _has_any_legal_move_scan(game_state, color, k + 1)

\* is_in_check / is_in_checkmate / is_in_stalemate called on the board:
\* the board left behind and whether the call raised
query_effect(game_state, query, color) ==
    IF is_in_check_raises(game_state, color)
    THEN [board |-> game_state, raised |-> TRUE]
    ELSE IF query = "is_in_check"
            \/ (query = "is_in_checkmate" /\ ~is_in_check(game_state, color))
            \/ (query = "is_in_stalemate" /\ is_in_check(game_state, color))
    THEN [board |-> game_state, raised |-> FALSE]
    ELSE LET scan == _has_any_legal_move_scan(game_state, color, 0)
         IN  [board |-> scan.board, raised |-> scan.raised]

(***************************************************************************)
(* move_executor                                                           *)
(***************************************************************************)
Abs(n) == IF n < 0 THEN -n ELSE n

\* faulty variant of execute_move: the pawn taken en passant stays on the board
execute_move_keeping_passed_pawn(game_state, piece_code, start_x, start_y, end_x, end_y, is_en_passant) ==
    LET g1 == set_piece(set_piece(game_state, start_x, start_y, ""), end_x, end_y, piece_code)
    IN  IF startswith(piece_code, "k") /\ Abs(end_y - start_y) = 2
        THEN IF end_y = 6
             THEN set_piece(set_piece(g1, end_x, 5, get_piece(g1, end_x, 7)), end_x, 7, "")
             ELSE IF end_y = 2
             THEN set_piece(set_piece(g1, end_x, 3, get_piece(g1, end_x, 0)), end_x, 0, "")
             ELSE g1
        ELSE g1

\* faulty variant of execute_move: the castling rook is copied next to the
\* king but its corner is not cleared
execute_move_copying_rook(game_state, piece_code, start_x, start_y, end_x, end_y, is_en_passant) ==
    LET g1 == set_piece(set_piece(game_state, start_x, start_y, ""), end_x, end_y, piece_code)
        g2 == IF startswith(piece_code, "k") /\ Abs(end_y - start_y) = 2
              THEN IF end_y = 6
                   THEN set_piece(g1, end_x, 5, get_piece(g1, end_x, 7))
                   ELSE IF end_y = 2
                   THEN set_piece(g1, end_x, 3, get_piece(g1, end_x, 0))
                   ELSE g1
              ELSE g1
    IN  IF is_en_passant THEN set_piece(g2, start_x, end_y, "") ELSE g2

execute_move(game_state, piece_code, start_x, start_y, end_x, end_y, is_en_passant) ==
    LET g1 == set_piece(set_piece(game_state, start_x, start_y, ""), end_x, end_y, piece_code)
        g2 == IF startswith(piece_code, "k") /\ Abs(end_y - start_y) = 2
              THEN IF end_y = 6
                   THEN set_piece(set_piece(g1, end_x, 5, get_piece(g1, end_x, 7)), end_x, 7, "")
                   ELSE IF end_y = 2
                   THEN set_piece(set_piece(g1, end_x, 3, get_piece(g1, end_x, 0)), end_x, 0, "")
                   ELSE g1
              ELSE g1
    IN  IF is_en_passant THEN set_piece(g2, start_x, end_y, "") ELSE g2

(***************************************************************************)
(* StateManager                                                            *)
(***************************************************************************)
\* faulty variant of _update_castling_rights: a rook that leaves its file
\* keeps its flag
_update_castling_rights_kings_only(context, piece_code, start_x, start_y, end_x, end_y) ==
    LET color == get_piece_color(piece_code)
        c1 == IF startswith(piece_code, "k")
              THEN [context EXCEPT !.king_moved[color] = TRUE] ELSE context
    IN  IF end_x \in {0, 7} /\ end_y \in {0, 7}
        THEN [c1 EXCEPT !.rook_moved[IF end_x = 7 THEN "l" ELSE "d"][end_y] = TRUE]
        ELSE c1

_update_castling_rights(context, piece_code, start_x, start_y, end_x, end_y) ==
    LET color == get_piece_color(piece_code)
        c1 == IF startswith(piece_code, "k")
              THEN [context EXCEPT !.king_moved[color] = TRUE] ELSE context
        c2 == IF startswith(piece_code, "r") /\ start_y \in {0, 7}
              THEN [c1 EXCEPT !.rook_moved[color][start_y] = TRUE] ELSE c1
    IN  IF end_x \in {0, 7} /\ end_y \in {0, 7}
        THEN [c2 EXCEPT !.rook_moved[IF end_x = 7 THEN "l" ELSE "d"][end_y] = TRUE]
        ELSE c2

\* faulty variant of _update_en_passant: the target is never cleared
_update_en_passant_never_cleared(context, piece_code, start_x, start_y, end_x, end_y) ==
    IF startswith(piece_code, "p") /\ Abs(end_x - start_x) = 2
    THEN [context EXCEPT !.en_passant_target = <<(start_x + end_x) \div 2, end_y>>]
    ELSE context

_update_en_passant(context, piece_code, start_x, start_y, end_x, end_y) ==
    IF startswith(piece_code, "p") /\ Abs(end_x - start_x) = 2
    THEN [context EXCEPT !.en_passant_target = <<(start_x + end_x) \div 2, end_y>>]
    ELSE [context EXCEPT !.en_passant_target = None]

\* faulty variant of StateManager.execute_move: is_capture looks at the
\* destination square only
StateManager_execute_move_capture_by_destination(state, context, piece_code, start_x, start_y, end_x, end_y) ==
    LET is_en_passant == /\ startswith(piece_code, "p")
                         /\ start_y # end_y
                         /\ ~is_piece_at(state, end_x, end_y)
        promotion_row == IF get_piece_color(piece_code) = "l" THEN 0 ELSE 7
        is_promotion == startswith(piece_code, "p") /\ end_x = promotion_row
    IN  [state |-> execute_move(state, piece_code, start_x, start_y, end_x, end_y, is_en_passant),
         context |-> _update_en_passant(
                        _update_castling_rights(context, piece_code, start_x, start_y, end_x, end_y),
                        piece_code, start_x, start_y, end_x, end_y),
         is_en_passant |-> is_en_passant,
         is_capture |-> is_piece_at(state, end_x, end_y),
         is_promotion |-> is_promotion,
         promotion_square |-> IF is_promotion THEN <<end_x, end_y>> ELSE None]

\* StateManager.execute_move: the new board and context and the result dict
StateManager_execute_move(state, context, piece_code, start_x, start_y, end_x, end_y) ==
    LET is_en_passant == /\ startswith(piece_code, "p")
                         /\ start_y # end_y
                         /\ ~is_piece_at(state, end_x, end_y)
        is_capture == is_piece_at(state, end_x, end_y) \/ is_en_passant
        promotion_row == IF get_piece_color(piece_code) = "l" THEN 0 ELSE 7
        is_promotion == startswith(piece_code, "p") /\ end_x = promotion_row
    IN  [state |-> execute_move(state, piece_code, start_x, start_y, end_x, end_y, is_en_passant),
         context |-> _update_en_passant(
                        _update_castling_rights(context, piece_code, start_x, start_y, end_x, end_y),
                        piece_code, start_x, start_y, end_x, end_y),
         is_en_passant |-> is_en_passant,
         is_capture |-> is_capture,
         is_promotion |-> is_promotion,
         promotion_square |-> IF is_promotion THEN <<end_x, end_y>> ELSE None]

promote_pawn(state, x, y, piece_type) ==
    LET color == get_piece_color(get_piece(state, x, y))
    IN  set_piece(state, x, y,
            CHOOSE code \in CodesOfKind[piece_type] : get_piece_color(code) = color)

(***************************************************************************)
(* Starting positions.  Besides the standard layout the model starts from  *)
(* positions that arise in play, each with the context its history gives   *)
(* it (a king or rook that has left its home square is marked as moved).   *)
(***************************************************************************)
BoardOf(pieces) ==
    [x \in Idx |-> [y \in Idx |->
        IF \E p \in pieces : p[1] = x /\ p[2] = y
        THEN (CHOOSE p \in pieces : p[1] = x /\ p[2] = y)[3]
        ELSE ""]]

ContextOf(king_l, king_d, rook_l0, rook_l7, rook_d0, rook_d7, light_turn) ==
    [king_moved |-> [c \in {"l", "d"} |-> IF c = "l" THEN king_l ELSE king_d],
     rook_moved |-> [c \in {"l", "d"} |-> [col \in {0, 7} |->
                        IF c = "l" THEN (IF col = 0 THEN rook_l0 ELSE rook_l7)
                        ELSE (IF col = 0 THEN rook_d0 ELSE rook_d7)]],
     en_passant_target |-> None,
     is_light_turn |-> light_turn]

\* exploration depth (mouse presses, one for each move made or refused):
\* from the standard layout, from the positions one move away from their
\* point, from the other middle-game positions and from the castling position
MaxPliesStart == 1
MaxPliesOpen == 1
MaxPlies == 2
MaxPliesCastle == 3

Positions ==
    {[name |-> "start", state |-> _starting_board, context |-> GameContext,
      pending |-> None, queue |-> << >>, budget |-> MaxPliesStart],
     \* Dark to move; d7-d5 lets Light capture en passant from e5, which
     \* opens the fifth rank between the Light king and the Dark rook
     [name |-> "ep_rank", context |-> ContextOf(TRUE, TRUE, TRUE, TRUE, TRUE, TRUE, FALSE),
      state |-> BoardOf({<<3, 0, "kl">>, <<3, 4, "pl">>, <<3, 7, "rd">>,
                         <<1, 3, "pd">>, <<0, 6, "kd">>}),
      pending |-> None, queue |-> << >>, budget |-> MaxPlies],
     \* Dark to move; after d7-d5 Light's only move is the en-passant capture
     [name |-> "ep_only", context |-> ContextOf(TRUE, TRUE, TRUE, TRUE, TRUE, TRUE, FALSE),
      state |-> BoardOf({<<7, 7, "kl">>, <<3, 4, "pl">>, <<6, 0, "rd">>, <<0, 6, "rd">>,
                         <<2, 4, "pd">>, <<1, 3, "pd">>, <<0, 0, "kd">>}),
      pending |-> None, queue |-> << >>, budget |-> MaxPliesOpen],
     \* Dark to move; the knight can check the Light king on e1 from d3
     [name |-> "castle_check",
      context |-> ContextOf(FALSE, FALSE, TRUE, FALSE, TRUE, TRUE, FALSE),
      state |-> BoardOf({<<7, 4, "kl">>, <<7, 7, "rl">>, <<3, 4, "nd">>, <<0, 4, "kd">>}),
      pending |-> None, queue |-> << >>, budget |-> MaxPlies],
     \* Light to move; the Dark rook on f8 attacks f1
     [name |-> "castle_path",
      context |-> ContextOf(FALSE, FALSE, FALSE, FALSE, TRUE, TRUE, TRUE),
      state |-> BoardOf({<<7, 4, "kl">>, <<7, 7, "rl">>, <<7, 0, "rl">>,
                         <<0, 5, "rd">>, <<0, 4, "kd">>}),
      pending |-> None, queue |-> << >>, budget |-> MaxPliesOpen],
     \* Light to move; the rook has gone from h1 to g1 and can return
     [name |-> "castle_return",
      context |-> ContextOf(FALSE, TRUE, TRUE, TRUE, TRUE, TRUE, TRUE),
      state |-> BoardOf({<<7, 4, "kl">>, <<7, 6, "rl">>, <<6, 7, "pl">>, <<2, 0, "pl">>,
                         <<5, 7, "pd">>, <<1, 0, "pd">>, <<0, 7, "kd">>}),
      pending |-> None, queue |-> << >>, budget |-> MaxPliesCastle],
     \* Light to move; the h1 rook has gone to a3 by way of h3, the a1 rook
     \* and the king have not moved
     [name |-> "rook_aside",
      context |-> ContextOf(FALSE, TRUE, FALSE, TRUE, TRUE, TRUE, TRUE),
      state |-> BoardOf({<<7, 4, "kl">>, <<7, 0, "rl">>, <<5, 0, "rl">>, <<1, 3, "kd">>}),
      pending |-> None, queue |-> << >>, budget |-> MaxPliesOpen],
     \* Light to move; the g7 pawn promotes on g8
     [name |-> "promotion",
      context |-> ContextOf(TRUE, TRUE, TRUE, TRUE, TRUE, TRUE, TRUE),
      state |-> BoardOf({<<7, 5, "kl">>, <<7, 4, "bl">>, <<6, 4, "pl">>, <<1, 6, "pl">>,
                         <<4, 6, "pl">>, <<2, 7, "kd">>, <<4, 3, "pd">>}),
      pending |-> None, queue |-> << >>, budget |-> MaxPliesOpen],
     \* the same game one move later: the pawn stands on g8, its promotion
     \* is pending and EVENT_PROMOTION waits in the queue
     [name |-> "promotion_pending",
      context |-> ContextOf(TRUE, TRUE, TRUE, TRUE, TRUE, TRUE, TRUE),
      state |-> BoardOf({<<7, 5, "kl">>, <<7, 4, "bl">>, <<6, 4, "pl">>, <<0, 6, "pl">>,
                         <<4, 6, "pl">>, <<2, 7, "kd">>, <<4, 3, "pd">>}),
      pending |-> <<0, 6>>, queue |-> <<"EVENT_PROMOTION">>, budget |-> MaxPlies]}

\* number of pieces standing on the board
PieceCount(game_state) ==
    Cardinality({sq \in Squares : game_state[sq[1]][sq[2]] # ""})

\* the corners toward which the context of a position no longer allows castling
DeadCorners(game_context) ==
    {c \in {"l", "d"} \X {0, 7} :
        game_context.king_moved[c[1]] \/ game_context.rook_moved[c[1]][c[2]]}

(***************************************************************************)
(* The running program: StateManager (state, context), Game (drag state,   *)
(* pending promotion), GameManager (app_state) and the pygame event queue. *)
(***************************************************************************)
VARIABLES
    state,                  \* StateManager._state: the board
    context,                \* StateManager._context
    dragging,               \* Game._dragging
    drag_piece,             \* Game.drag_piece ('' when none)
    drag_piece_start_sq,
    drag_piece_cursor_sq,
    drag_piece_valid_moves,
    pending_promotion,      \* Game.pending_promotion
    app_state,              \* GameManager._app_state
    queue,                  \* custom events posted to the pygame queue
    batch,                  \* custom events returned by pygame.event.get(), not yet handled
    button,                 \* the left mouse button is held down
    crashed,                \* an exception left the main loop
    budget,                 \* mouse presses still to explore
    hist,                   \* the last executed move, for stating properties
    mode,                   \* class of GameManager._game: "pvp" (PVPGame) or "pvc" (PVCGame)
    computing,              \* PVCGame._computing of the current game
    last_computer_move,     \* PVCGame._last_computer_move of the current game
    workers,                \* searches running in background threads, oldest first
    posted_moves,           \* move_data of the EVENT_COMPUTER_MOVE events posted, in order
    menu_budget             \* ESC presses and new games still to explore

vars == <<state, context, dragging, drag_piece, drag_piece_start_sq, drag_piece_cursor_sq,
          drag_piece_valid_moves, pending_promotion, app_state, queue, batch, button,
          crashed, budget, hist, mode, computing, workers, posted_moves, menu_budget,
          last_computer_move>>

pvc_vars == <<mode, computing, workers, posted_moves, last_computer_move>>

game_vars == <<dragging, drag_piece, drag_piece_start_sq, drag_piece_cursor_sq,
               drag_piece_valid_moves, pending_promotion>>

NoMove ==
    [step |-> "idle", name |-> "", piece |-> "", from |-> None, to |-> None,
     is_capture |-> FALSE, is_en_passant |-> FALSE, is_promotion |-> FALSE,
     before |-> EmptyBoard, context_before |-> GameContext,
     prev_piece |-> "", prev_from |-> None, prev_to |-> None, captures |-> 0,
     count0 |-> 0, lost |-> 0, dead |-> {},
     pickup_board |-> EmptyBoard, pickup_context |-> GameContext]

Init ==
    \E pos \in Positions :
        /\ state = pos.state
        /\ context = pos.context
        /\ dragging = FALSE
        /\ drag_piece = ""
        /\ drag_piece_start_sq = <<0, 0>>
        /\ drag_piece_cursor_sq = <<0, 0>>
        /\ drag_piece_valid_moves = {}
        /\ pending_promotion = pos.pending
        /\ app_state = "PLAYER_MOVE"
        /\ queue = pos.queue
        /\ batch = << >>
        /\ button = FALSE
        /\ crashed = FALSE
        /\ budget = pos.budget
        /\ mode = "pvp"
        /\ computing = FALSE
        /\ last_computer_move = None
        /\ workers = << >>
        /\ posted_moves = << >>
        /\ menu_budget = 0
        /\ hist = [NoMove EXCEPT !.name = pos.name,
                                 !.count0 = PieceCount(pos.state),
                                 !.dead = DeadCorners(pos.context)]

Step(name) == hist' = [hist EXCEPT !.step = name]

(***************************************************************************)
(* Game._post_move_checks: the game-over event it posts ("" when none)     *)
(***************************************************************************)
_post_move_checks_event(game_state, color) ==
    IF is_in_checkmate(game_state, color)
    THEN (IF color = "l" THEN "EVENT_BLACK_WINS" ELSE "EVENT_WHITE_WINS")
    ELSE IF is_in_stalemate(game_state, color) THEN "EVENT_DRAW"
    ELSE ""

_post_move_checks_raises(game_state, color) ==
    is_in_check_raises(game_state, color) \/ _has_any_legal_move_raises(game_state, color)

\* Game._post_move_checks as it runs: is_in_checkmate scans only when the
\* king is in check and is_in_stalemate only when it is not, so the two
\* calls make exactly one scan unless is_in_check raises.  The board left
\* behind, whether an exception left the handler, and the event posted.
_post_move_checks(game_state, color) ==
    IF is_in_check_raises(game_state, color)
    THEN [board |-> game_state, raised |-> TRUE, event |-> ""]
    ELSE CHOOSE checks \in
            {[board |-> scan.board,
              raised |-> scan.raised,
              event |-> IF scan.raised \/ scan.found THEN ""
                        ELSE IF ~is_in_check(game_state, color) THEN "EVENT_DRAW"
                        ELSE IF color = "l" THEN "EVENT_BLACK_WINS"
                        ELSE "EVENT_WHITE_WINS"] :
             scan \in {_has_any_legal_move_scan(game_state, color, 0)}} : TRUE

\* Game._on_move_complete on the board and context left by the move:
\* switch the turn, run the checks, post the event
Game_on_move_complete(new_state, new_context) ==
    \E checks \in {_post_move_checks(new_state, current_color(switch_turn(new_context)))} :
        /\ state' = checks.board
        /\ context' = switch_turn(new_context)
        /\ crashed' = checks.raised
        /\ queue' = (IF checks.event = "" THEN queue ELSE Append(queue, checks.event))

\* PVCGame._on_move_complete after the base hook: start the search if it is
\* now the computer's turn and the game is not over.  The thread reads the
\* position as it starts.
\* a search thread of the current game: it reads the game's board and
\* context when it runs; once the manager has replaced the game, the thread
\* still reads the old game object, whose board and context no longer change
LiveWorker == [live |-> TRUE, state |-> EmptyBoard, context |-> GameContext]

_COMPUTER_COLOR == "d"
PVCGame_on_move_complete(new_state, new_context, was_computing, highlight) ==
    LET ctx == switch_turn(new_context)
        color == current_color(ctx)
    IN  IF /\ mode = "pvc"
           /\ ~_post_move_checks_raises(new_state, color)
           /\ color = _COMPUTER_COLOR
           /\ ~is_in_checkmate(new_state, color)
           /\ ~is_in_stalemate(new_state, color)
        THEN /\ computing' = TRUE
             /\ workers' = Append(workers, LiveWorker)
             /\ last_computer_move' = None
        ELSE /\ computing' = was_computing
             /\ last_computer_move' = highlight
             /\ UNCHANGED workers

\* the hook of the current game's class
_on_move_complete(new_state, new_context) ==
    /\ Game_on_move_complete(new_state, new_context)
    /\ PVCGame_on_move_complete(new_state, new_context, computing, last_computer_move)

\* variant: the manager hands every event to the game
forwarded_always == TRUE

\* GameManager._handle_event: the last branch hands an event to the game
\* only in PLAYER_MOVE
forwarded == app_state = "PLAYER_MOVE"

\* PVCGame.handle_event forwards no mouse event while the engine is thinking
\* variant: input is forwarded to the player whether or not a search runs
blocked_never == FALSE

blocked == mode = "pvc" /\ computing

(***************************************************************************)
(* MOUSEBUTTONDOWN on a square.  GameManager forwards it to the game only  *)
(* in PLAYER_MOVE (a press made while a menu is shown is dropped and does  *)
(* not count against the presses explored); Game.handle_event sets         *)
(* _dragging and calls drag_start.                                         *)
(***************************************************************************)
drag_start(sq) ==
    LET piece == get_piece(state, sq[1], sq[2])
        lifted == clear_square(state, sq[1], sq[2])
    IN  IF piece # "" /\ is_turn(context, piece)
        THEN /\ state' = lifted
             /\ drag_piece' = piece
             /\ drag_piece_start_sq' = sq
             /\ drag_piece_cursor_sq' = sq
             /\ IF get_valid_moves_raises(lifted, context, piece, sq[1], sq[2])
                THEN /\ crashed' = TRUE
                     /\ UNCHANGED drag_piece_valid_moves
                ELSE /\ crashed' = FALSE
                     /\ drag_piece_valid_moves' =
                            get_valid_moves(lifted, context, piece, sq[1], sq[2], FALSE)
        ELSE /\ drag_piece' = ""
             /\ UNCHANGED <<state, drag_piece_start_sq, drag_piece_cursor_sq,
                            drag_piece_valid_moves, crashed>>

MouseDown(sq) ==
    /\ ~crashed /\ batch = << >>
    /\ ~button
    /\ IF app_state = "PLAYER_MOVE" THEN budget > 0 ELSE sq = <<0, 0>>
    /\ button' = TRUE
    /\ IF forwarded /\ ~blocked
       THEN /\ dragging' = TRUE
            /\ drag_start(sq)
       ELSE UNCHANGED <<state, dragging, drag_piece, drag_piece_start_sq,
                        drag_piece_cursor_sq, drag_piece_valid_moves, crashed>>
    /\ hist' = [hist EXCEPT !.step = IF ~forwarded THEN "dropped"
                                     ELSE IF blocked THEN "blocked" ELSE "idle",
                            !.lost = IF /\ forwarded /\ ~blocked
                                        /\ dragging /\ drag_piece # ""
                                     THEN hist.lost + 1 ELSE hist.lost,
                            !.pickup_board =
                                IF forwarded /\ ~blocked /\ drag_piece' # ""
                                THEN state ELSE hist.pickup_board,
                            !.pickup_context =
                                IF forwarded /\ ~blocked /\ drag_piece' # ""
                                THEN context ELSE hist.pickup_context]
    /\ budget' = (IF app_state = "PLAYER_MOVE" THEN budget - 1 ELSE budget)
    /\ UNCHANGED <<context, pending_promotion, app_state, queue, batch, pvc_vars,
                   menu_budget>>

(***************************************************************************)
(* MOUSEMOTION: drag_continue moves the cursor square of a held piece.     *)
(* The squares tried are the legal destinations, the origin and one other  *)
(* square (every rejected square is handled alike).                        *)
(***************************************************************************)
OtherSquare ==
    CHOOSE sq \in Squares : /\ sq \notin drag_piece_valid_moves
                            /\ sq # drag_piece_start_sq
CursorSquares ==
    (drag_piece_valid_moves \cap Squares) \cup {drag_piece_start_sq, OtherSquare}

MouseMotion(sq) ==
    /\ ~crashed /\ batch = << >>
    /\ forwarded /\ ~blocked /\ dragging /\ drag_piece # ""
    /\ sq # drag_piece_cursor_sq
    /\ drag_piece_cursor_sq' = sq
    /\ Step("idle")
    /\ UNCHANGED <<state, context, dragging, drag_piece, drag_piece_start_sq,
                   drag_piece_valid_moves, pending_promotion, app_state, queue, batch,
                   button, crashed, budget, pvc_vars, menu_budget>>

(***************************************************************************)
(* MOUSEBUTTONUP: Game.handle_event clears _dragging and calls drag_stop   *)
(***************************************************************************)
_execute_drag_move ==
    LET sx == drag_piece_start_sq[1]
        sy == drag_piece_start_sq[2]
        ex == drag_piece_cursor_sq[1]
        ey == drag_piece_cursor_sq[2]
        r == StateManager_execute_move(state, context, drag_piece, sx, sy, ex, ey)
        color == get_piece_color(drag_piece)
        home == [c \in {"l", "d"} |-> IF c = "l" THEN 7 ELSE 0]
        \* corners whose castling the rules end with this move: the king
        \* moved, the rook left its corner, or the rook was captured on it
        dying == {c \in {"l", "d"} \X {0, 7} :
                    \/ drag_piece = KingOf[c[1]]
                    \/ drag_piece = RookOf[c[1]] /\ sx = home[c[1]] /\ sy = c[2]
                    \/ ex = home[c[1]] /\ ey = c[2] /\ state[ex][ey] = RookOf[c[1]]}
    IN  /\ hist' = [hist EXCEPT !.step = "move", !.piece = drag_piece,
                        !.from = drag_piece_start_sq, !.to = drag_piece_cursor_sq,
                        !.is_capture = r.is_capture, !.is_en_passant = r.is_en_passant,
                        !.is_promotion = r.is_promotion,
                        !.before = state, !.context_before = context,
                        !.prev_piece = hist.piece, !.prev_from = hist.from,
                        !.prev_to = hist.to,
                        !.captures = hist.captures + (IF r.is_capture THEN 1 ELSE 0),
                        !.dead = hist.dead \cup dying]
        /\ IF r.is_promotion
           THEN /\ state' = r.state
                /\ context' = r.context
                /\ pending_promotion' = r.promotion_square
                /\ drag_piece' = ""
                /\ queue' = Append(queue, "EVENT_PROMOTION")
                /\ UNCHANGED <<crashed, computing, workers,
                   last_computer_move>>
           ELSE /\ _on_move_complete(r.state, r.context)
                /\ drag_piece' = (IF crashed' THEN drag_piece ELSE "")
                /\ UNCHANGED pending_promotion

_return_piece_to_start ==
    state' = set_piece(state, drag_piece_start_sq[1], drag_piece_start_sq[2], drag_piece)

drag_stop ==
    IF drag_piece = ""
    THEN /\ Step("idle")
         /\ UNCHANGED <<state, context, drag_piece, pending_promotion, queue, crashed,
                        computing, workers,
                   last_computer_move>>
    ELSE IF drag_piece_cursor_sq \in drag_piece_valid_moves
    THEN _execute_drag_move
    ELSE IF drag_piece_cursor_sq # drag_piece_start_sq
    THEN /\ _return_piece_to_start
         /\ drag_piece' = ""
         /\ Step("reject")
         /\ UNCHANGED <<context, pending_promotion, queue, crashed, computing, workers,
                   last_computer_move>>
    ELSE \* dropped on the starting square: drag_piece stays set
         /\ _return_piece_to_start
         /\ Step("reject")
         /\ UNCHANGED <<context, drag_piece, pending_promotion, queue, crashed,
                        computing, workers,
                   last_computer_move>>

MouseUp ==
    /\ ~crashed /\ batch = << >>
    /\ button
    /\ button' = FALSE
    /\ IF forwarded /\ ~blocked
       THEN /\ dragging' = FALSE
            /\ drag_stop
       ELSE /\ Step(IF forwarded THEN "blocked" ELSE "dropped")
            /\ UNCHANGED <<state, context, dragging, drag_piece, pending_promotion,
                           queue, crashed, computing, workers,
                   last_computer_move>>
    /\ UNCHANGED <<drag_piece_start_sq, drag_piece_cursor_sq, drag_piece_valid_moves,
                   app_state, batch, budget, mode, posted_moves, menu_budget>>

(***************************************************************************)
(* GameManager.run: pygame.event.get() takes every queued event as one     *)
(* batch; events posted while a batch is handled wait for the next frame,  *)
(* where they stand before the input gathered by that frame's get().  So   *)
(* the mouse actions taken before NewFrame belong to the batch in which    *)
(* the event was posted, and none is taken until the posted events of the  *)
(* new batch have been handled.                                            *)
(***************************************************************************)
NewFrame ==
    /\ ~crashed
    /\ batch = << >> /\ queue # << >>
    /\ batch' = queue
    /\ queue' = << >>
    /\ Step("idle")
    /\ UNCHANGED <<state, context, game_vars, app_state, button, crashed, budget,
                   pvc_vars, menu_budget>>

\* GameManager._handle_event on the next custom event of the batch
HandlePosted ==
    /\ ~crashed
    /\ batch # << >>
    /\ Head(batch) # "EVENT_COMPUTER_MOVE"
    /\ app_state' = (IF Head(batch) = "EVENT_PROMOTION" THEN "PROMOTION" ELSE "GAME_OVER")
    /\ batch' = Tail(batch)
    /\ Step("idle")
    /\ UNCHANGED <<state, context, game_vars, queue, button, crashed, budget,
                   pvc_vars, menu_budget>>

(***************************************************************************)
(* The promotion menu, drawn after the batch has been handled, calls       *)
(* GameManager._on_promotion_select, which calls Game.complete_promotion   *)
(* and returns to PLAYER_MOVE                                              *)
(***************************************************************************)
\* variant: the turn is completed whether or not a promotion is pending
complete_promotion_unguarded(piece_type) ==
    /\ _on_move_complete(
           IF pending_promotion # None
           THEN promote_pawn(state, pending_promotion[1], pending_promotion[2], piece_type)
           ELSE state,
           context)
    /\ pending_promotion' = None

complete_promotion(piece_type) ==
    IF pending_promotion # None
    THEN /\ _on_move_complete(
                promote_pawn(state, pending_promotion[1], pending_promotion[2], piece_type),
                context)
         /\ pending_promotion' = None
    ELSE UNCHANGED <<state, context, pending_promotion, queue, crashed, computing, workers,
                   last_computer_move>>

PromotionSelect(piece_type) ==
    /\ ~crashed
    /\ app_state = "PROMOTION" /\ batch = << >>
    /\ complete_promotion(piece_type)
    /\ app_state' = "PLAYER_MOVE"
    /\ Step("promote")
    /\ UNCHANGED <<dragging, drag_piece, drag_piece_start_sq, drag_piece_cursor_sq,
                   drag_piece_valid_moves, batch, button, budget, mode, posted_moves,
                   menu_budget>>

Next ==
    \/ \E sq \in Squares : MouseDown(sq)
    \/ \E sq \in CursorSquares : MouseMotion(sq)
    \/ MouseUp
    \/ NewFrame
    \/ HandlePosted
    \/ \E piece_type \in {"q", "r", "b", "n"} : PromotionSelect(piece_type)

Spec == Init /\ [][Next]_vars

(***************************************************************************)
(* The session called directly, as the tests do: a status query made on    *)
(* the session between two events, and Game.complete_promotion called      *)
(* whether or not a promotion is pending.  Queries are made between two    *)
(* mouse gestures.  An exception the caller gets ends the run.             *)
(***************************************************************************)
Queries == {"is_in_check", "is_in_checkmate", "is_in_stalemate"}

StatusQuery(query, color) ==
    /\ ~crashed /\ batch = << >> /\ ~button
    /\ \E effect \in {query_effect(state, query, color)} :
          /\ state' = effect.board
          /\ crashed' = effect.raised
    /\ hist' = [hist EXCEPT !.step = "query", !.before = state, !.context_before = context]
    /\ UNCHANGED <<context, game_vars, app_state, queue, batch, button, budget,
                   pvc_vars, menu_budget>>

CompletePromotionCall(piece_type) ==
    /\ ~crashed /\ batch = << >>
    /\ app_state = "PLAYER_MOVE"
    /\ complete_promotion(piece_type)
    /\ hist' = [hist EXCEPT !.step = IF pending_promotion = None THEN "no_promotion"
                                     ELSE "promote",
                            !.before = state, !.context_before = context]
    /\ UNCHANGED <<dragging, drag_piece, drag_piece_start_sq, drag_piece_cursor_sq,
                   drag_piece_valid_moves, app_state, batch, button, budget, mode,
                   posted_moves, menu_budget>>

MaxCalls == 2
MaxCallsQuiet == 1
ApiPositions ==
    {\* Dark to move: the h2 pawn reaches h1 while the Dark king has no move
     [name |-> "dark_promotion",
      context |-> ContextOf(TRUE, TRUE, TRUE, TRUE, TRUE, TRUE, FALSE),
      state |-> BoardOf({<<2, 0, "kl">>, <<2, 2, "nl">>, <<0, 0, "kd">>, <<6, 7, "pd">>}),
      budget |-> MaxCalls],
     \* Light to move, no pawn near its far rank
     [name |-> "quiet",
      context |-> ContextOf(TRUE, TRUE, TRUE, TRUE, TRUE, TRUE, TRUE),
      state |-> BoardOf({<<7, 4, "kl">>, <<5, 2, "nl">>, <<0, 4, "kd">>, <<3, 3, "pd">>}),
      budget |-> MaxCallsQuiet]}

InitApi ==
    \E pos \in ApiPositions :
        /\ state = pos.state
        /\ context = pos.context
        /\ dragging = FALSE
        /\ drag_piece = ""
        /\ drag_piece_start_sq = <<0, 0>>
        /\ drag_piece_cursor_sq = <<0, 0>>
        /\ drag_piece_valid_moves = {}
        /\ pending_promotion = None
        /\ app_state = "PLAYER_MOVE"
        /\ queue = << >>
        /\ batch = << >>
        /\ button = FALSE
        /\ crashed = FALSE
        /\ budget = pos.budget
        /\ mode = "pvp"
        /\ computing = FALSE
        /\ last_computer_move = None
        /\ workers = << >>
        /\ posted_moves = << >>
        /\ menu_budget = 0
        /\ hist = [NoMove EXCEPT !.name = pos.name,
                                 !.count0 = PieceCount(pos.state),
                                 !.dead = DeadCorners(pos.context)]

NextApi ==
    \/ Next
    \/ \E query \in Queries, color \in {"l", "d"} : StatusQuery(query, color)
    \/ \E piece_type \in {"q", "r", "b", "n"} : CompletePromotionCall(piece_type)

SpecApi == InitApi /\ [][NextApi]_vars

(***************************************************************************)
(* The whole application: GameManager with its menus, and the              *)
(* player-vs-computer game.  ESC pauses, the pause and game-over menus     *)
(* resign to the start menu, the start menu creates a new game object.     *)
(***************************************************************************)
\* KEYDOWN K_ESCAPE: its branch of _handle_event is taken in PLAYER_MOVE;
\* in any other state the key falls through to the last branch and is dropped
Escape ==
    /\ ~crashed /\ batch = << >>
    /\ menu_budget > 0
    /\ app_state' = (IF app_state = "PLAYER_MOVE" THEN "PAUSE" ELSE app_state)
    /\ menu_budget' = menu_budget - 1
    /\ Step(IF app_state = "PLAYER_MOVE" THEN "idle" ELSE "dropped")
    /\ UNCHANGED <<state, context, game_vars, queue, batch, button, crashed, budget,
                   pvc_vars>>

_resume_game ==
    /\ ~crashed /\ batch = << >>
    /\ app_state = "PAUSE"
    /\ app_state' = "PLAYER_MOVE"
    /\ Step("idle")
    /\ UNCHANGED <<state, context, game_vars, queue, batch, button, crashed, budget,
                   pvc_vars, menu_budget>>

_resign_game ==
    /\ ~crashed /\ batch = << >>
    /\ app_state \in {"PAUSE", "GAME_OVER"}
    /\ app_state' = "START"
    /\ Step("idle")
    /\ UNCHANGED <<state, context, game_vars, queue, batch, button, crashed, budget,
                   pvc_vars, menu_budget>>

\* variant: the new game object is handed the state manager of the old one
NewGame_reusing_state_manager(game_mode) ==
    /\ UNCHANGED <<state, context>>
    /\ dragging' = FALSE
    /\ drag_piece' = ""
    /\ drag_piece_start_sq' = <<0, 0>>
    /\ drag_piece_cursor_sq' = <<0, 0>>
    /\ drag_piece_valid_moves' = {}
    /\ pending_promotion' = None
    /\ mode' = game_mode
    /\ computing' = FALSE
    /\ last_computer_move' = None

\* PVPGame(...) or PVCGame(...): Game.__init__ with a new StateManager
NewGame(game_mode) ==
    /\ state' = _starting_board
    /\ context' = GameContext
    /\ dragging' = FALSE
    /\ drag_piece' = ""
    /\ drag_piece_start_sq' = <<0, 0>>
    /\ drag_piece_cursor_sq' = <<0, 0>>
    /\ drag_piece_valid_moves' = {}
    /\ pending_promotion' = None
    /\ mode' = game_mode
    /\ computing' = FALSE
    /\ last_computer_move' = None

\* GameManager._start_pvp_game / _start_pvc_game, from the start menu
StartGame(game_mode) ==
    /\ ~crashed /\ batch = << >>
    /\ menu_budget > 0
    /\ app_state = "START"
    /\ NewGame(game_mode)
    /\ app_state' = "PLAYER_MOVE"
    /\ workers' = [i \in DOMAIN workers |->
                      IF workers[i].live
                      THEN [live |-> FALSE, state |-> state, context |-> context]
                      ELSE workers[i]]
    /\ menu_budget' = menu_budget - 1
    /\ hist' = [NoMove EXCEPT !.step = "start", !.name = "new_game",
                              !.before = state, !.context_before = context,
                              !.count0 = 32]
    /\ UNCHANGED <<queue, batch, button, crashed, budget, posted_moves>>

(***************************************************************************)
(* The engine.  SunfishAdapter.get_best_move searches the position it is   *)
(* given for the side to move there and returns one of that side's moves,  *)
(* with the promotion piece when a pawn reaches its far rank, or           *)
(* (0, 0, 0, 0, '') when the search yields none.  Which move it picks is   *)
(* left open; of the moves it may return the model tries MaxEngineMoves,   *)
(* taken from both ends of the board order.                                *)
(***************************************************************************)
MaxEngineMoves == 1
MoveRank(m) == ((m[1] * 8 + m[2]) * 8 + m[3]) * 8 + m[4]
EngineSample(moves) ==
    {m \in moves :
        \/ Cardinality({n \in moves : MoveRank(n) < MoveRank(m)}) < (MaxEngineMoves + 1) \div 2
        \/ Cardinality({n \in moves : MoveRank(n) > MoveRank(m)}) < MaxEngineMoves \div 2}

EngineMoves(game_state, game_context) ==
    LET color == current_color(game_context)
        far == IF color = "l" THEN 0 ELSE 7
        found == UNION {
            LET piece == get_piece(game_state, sq[1], sq[2])
                lifted == clear_square(game_state, sq[1], sq[2])
            IN  IF get_valid_moves_raises(lifted, game_context, piece, sq[1], sq[2])
                THEN {}
                ELSE UNION {
                        IF startswith(piece, "p") /\ m[1] = far
                        THEN {<<sq[1], sq[2], m[1], m[2], promo>> :
                                 promo \in {"q", "r", "b", "n"}}
                        ELSE {<<sq[1], sq[2], m[1], m[2], "">>} :
                        m \in get_valid_moves(lifted, game_context, piece,
                                              sq[1], sq[2], FALSE) \cap Squares} :
            sq \in OwnSquares(game_state, color)}
    IN  IF found = {} THEN {<<0, 0, 0, 0, "">>} ELSE EngineSample(found)

\* PVCGame._compute_worker: a search thread reads the position of its game
\* and posts EVENT_COMPUTER_MOVE with the move found
_compute_worker(i) ==
    /\ ~crashed
    /\ i \in DOMAIN workers
    /\ LET w == workers[i]
           game_state == IF w.live THEN state ELSE w.state
           game_context == IF w.live THEN context ELSE w.context
       IN  \E move_data \in EngineMoves(game_state, game_context) :
              /\ posted_moves' = Append(posted_moves,
                     [move_data |-> move_data, state |-> game_state,
                      context |-> game_context, live |-> w.live])
    /\ workers' = [k \in 1 .. Len(workers) - 1 |->
                      IF k < i THEN workers[k] ELSE workers[k + 1]]
    /\ queue' = Append(queue, "EVENT_COMPUTER_MOVE")
    /\ Step("idle")
    /\ UNCHANGED <<state, context, game_vars, app_state, batch, button, crashed, budget,
                   mode, computing, menu_budget, last_computer_move>>

\* variant: a move from an empty square returns before the flag is cleared
_ignore_computer_move_keeping_flag ==
    /\ Step("ignored")
    /\ UNCHANGED <<state, context, drag_piece, queue, crashed, computing, workers,
                   last_computer_move>>

\* PVCGame._apply_computer_move, source square empty: the flag is cleared,
\* the error is logged and the move is dropped
_ignore_computer_move ==
    /\ computing' = FALSE
    /\ Step("ignored")
    /\ UNCHANGED <<state, context, drag_piece, queue, crashed, workers,
                   last_computer_move>>

\* PVCGame._apply_computer_move
_apply_computer_move(move_data) ==
    LET sx == move_data[1]
        sy == move_data[2]
        ex == move_data[3]
        ey == move_data[4]
        promo == move_data[5]
        piece == get_piece(state, sx, sy)
        lifted == clear_square(state, sx, sy)
        r == StateManager_execute_move(lifted, context, piece, sx, sy, ex, ey)
        moved == IF r.is_promotion
                 THEN promote_pawn(r.state, ex, ey, IF promo = "" THEN "q" ELSE promo)
                 ELSE r.state
    IN  IF piece = ""
        THEN _ignore_computer_move
        ELSE /\ Game_on_move_complete(moved, r.context)
             /\ PVCGame_on_move_complete(moved, r.context, FALSE, <<<<sx, sy>>, <<ex, ey>>>>)
             /\ drag_piece' = (IF crashed' THEN piece ELSE "")
             /\ hist' = [hist EXCEPT !.step = "computer", !.piece = piece,
                             !.from = <<sx, sy>>, !.to = <<ex, ey>>,
                             !.is_capture = r.is_capture,
                             !.is_en_passant = r.is_en_passant,
                             !.is_promotion = r.is_promotion,
                             !.before = lifted, !.context_before = context,
                             !.prev_piece = hist.piece, !.prev_from = hist.from,
                             !.prev_to = hist.to,
                             !.captures = hist.captures + (IF r.is_capture THEN 1 ELSE 0)]

\* GameManager._handle_event on EVENT_COMPUTER_MOVE: forwarded to the game
\* only in PLAYER_MOVE; Game.handle_event (PVPGame) has no branch for it
HandleComputerMove ==
    /\ ~crashed
    /\ batch # << >>
    /\ Head(batch) = "EVENT_COMPUTER_MOVE"
    /\ IF forwarded /\ mode = "pvc"
       THEN _apply_computer_move(Head(posted_moves).move_data)
       ELSE /\ Step("dropped")
            /\ UNCHANGED <<state, context, drag_piece, queue, crashed, computing, workers,
                   last_computer_move>>
    /\ batch' = Tail(batch)
    /\ posted_moves' = Tail(posted_moves)
    /\ UNCHANGED <<dragging, drag_piece_start_sq, drag_piece_cursor_sq,
                   drag_piece_valid_moves, pending_promotion, app_state, button, budget,
                   mode, menu_budget>>

MaxPress == 2
MaxPressPromotion == 2
MaxPressThinking == 1
MaxPressNewGame == 1
MaxMenu == 1
AppPositions ==
    {\* Light to move against the computer
     [name |-> "pvc_game", app_state |-> "PLAYER_MOVE",
      context |-> ContextOf(TRUE, TRUE, TRUE, TRUE, TRUE, TRUE, TRUE),
      state |-> BoardOf({<<7, 4, "kl">>, <<5, 2, "nl">>, <<0, 4, "kd">>, <<3, 3, "pd">>}),
      computing |-> FALSE, workers |-> << >>,
      budget |-> MaxPress, menu_budget |-> MaxMenu],
     \* Light to move against the computer, the a7 pawn promotes on a8
     [name |-> "pvc_promotion", app_state |-> "PLAYER_MOVE",
      context |-> ContextOf(TRUE, TRUE, TRUE, TRUE, TRUE, TRUE, TRUE),
      state |-> BoardOf({<<7, 4, "kl">>, <<6, 4, "pl">>, <<1, 0, "pl">>,
                         <<0, 7, "kd">>, <<3, 3, "pd">>}),
      computing |-> FALSE, workers |-> << >>,
      budget |-> MaxPressPromotion, menu_budget |-> 0],
     \* Light has just moved: the search for Dark's reply is running
     [name |-> "pvc_thinking", app_state |-> "PLAYER_MOVE",
      context |-> ContextOf(TRUE, TRUE, TRUE, TRUE, TRUE, TRUE, FALSE),
      state |-> BoardOf({<<7, 4, "kl">>, <<4, 1, "nl">>, <<0, 4, "kd">>, <<3, 3, "pd">>}),
      computing |-> TRUE, workers |-> <<LiveWorker>>,
      budget |-> MaxPressThinking, menu_budget |-> MaxMenu],
     \* the same game resigned from the pause menu while the search was
     \* running, as the game before it had been: the start menu is shown
     \* and the threads of both games are still at work
     [name |-> "pvc_resigned", app_state |-> "START",
      context |-> ContextOf(TRUE, TRUE, TRUE, TRUE, TRUE, TRUE, FALSE),
      state |-> BoardOf({<<7, 4, "kl">>, <<4, 1, "nl">>, <<0, 4, "kd">>, <<3, 3, "pd">>}),
      computing |-> TRUE,
      workers |-> <<[live |-> FALSE,
                     state |-> BoardOf({<<7, 4, "kl">>, <<2, 4, "kd">>, <<3, 3, "pd">>}),
                     context |-> ContextOf(TRUE, TRUE, TRUE, TRUE, TRUE, TRUE, FALSE)],
                    LiveWorker>>,
      budget |-> MaxPressNewGame, menu_budget |-> MaxMenu]}

InitApp ==
    \E pos \in AppPositions :
        /\ state = pos.state
        /\ context = pos.context
        /\ dragging = FALSE
        /\ drag_piece = ""
        /\ drag_piece_start_sq = <<0, 0>>
        /\ drag_piece_cursor_sq = <<0, 0>>
        /\ drag_piece_valid_moves = {}
        /\ pending_promotion = None
        /\ app_state = pos.app_state
        /\ queue = << >>
        /\ batch = << >>
        /\ button = FALSE
        /\ crashed = FALSE
        /\ budget = pos.budget
        /\ mode = "pvc"
        /\ computing = pos.computing
        /\ last_computer_move = None
        /\ workers = pos.workers
        /\ posted_moves = << >>
        /\ menu_budget = pos.menu_budget
        /\ hist = [NoMove EXCEPT !.name = pos.name,
                                 !.count0 = PieceCount(pos.state),
                                 !.dead = DeadCorners(pos.context)]

NextApp ==
    \/ Next
    \/ Escape
    \/ _resume_game
    \/ _resign_game
    \/ \E game_mode \in {"pvp", "pvc"} : StartGame(game_mode)
    \/ \E i \in DOMAIN workers : _compute_worker(i)
    \/ HandleComputerMove

SpecApp == InitApp /\ [][NextApp]_vars

\* GameManager.run keeps taking frames and handles every event of a frame;
\* a started search thread runs to its end.  The thread's step is enabled
\* exactly when a thread is at work (EngineMoves is never empty), and the
\* step that handles EVENT_COMPUTER_MOVE exactly when that event heads the
\* batch: their weak fairness is written out with these conditions.
SpecAppFair ==
    /\ SpecApp
    /\ WF_vars(NewFrame)
    /\ WF_vars(HandlePosted)
    /\ \/ []<>(crashed \/ batch = << >> \/ Head(batch) # "EVENT_COMPUTER_MOVE")
       \/ []<><<HandleComputerMove>>_vars
    /\ \/ []<>(crashed \/ workers = << >>)
       \/ []<><<\E i \in DOMAIN workers : _compute_worker(i)>>_vars

(***************************************************************************)
(* The call structure of the validator.  get_valid_moves filters its       *)
(* candidates through can_occupy_square, which calls is_in_check unless    *)
(* ignore_check is set; a king's castling is evaluated, with further       *)
(* is_in_check calls, only when ignore_check is not set; is_in_check calls *)
(* get_valid_moves for every opposing piece.                               *)
(***************************************************************************)
\* deepest nesting followed
MaxDepth == 4

\* faulty variant: the attack scan filters its moves by check
attack_scan_filtering == FALSE

\* the ignore_check argument of the get_valid_moves call made by is_in_check
attack_scan_ignore_check == TRUE

\* the number of get_valid_moves calls on the stack at the deepest point of
\* one call, followed for at most fuel nested is_in_check calls
RECURSIVE call_depth(_, _, _, _, _, _, _)
call_depth(game_state, game_context, piece_code, start_x, start_y, ignore_check, fuel) ==
    LET color == get_piece_color(piece_code)
        row == IF color = "l" THEN 7 ELSE 0
        \* boards on which can_occupy_square calls is_in_check
        occupied == {set_piece(game_state, m[1], m[2], piece_code) :
                        m \in get_valid_moves(game_state, game_context, piece_code,
                                              start_x, start_y, TRUE)}
        \* boards on which _add_castling_moves and _castle_path_safe may call it
        castling ==
            IF /\ startswith(piece_code, "k") /\ start_x = row /\ start_y = 4
               /\ ~has_king_moved(game_context, color)
            THEN {game_state}
                 \cup {set_piece(game_state, row, col, piece_code) :
                          col \in {c \in {2, 3, 5, 6} :
                                      /\ ~has_rook_moved(game_context, color, IF c > 4 THEN 7 ELSE 0)
                                      /\ get_piece(game_state, row, IF c > 4 THEN 7 ELSE 0) = RookOf[color]}}
            ELSE {}
        checked == IF ignore_check \/ fuel = 0 THEN {} ELSE occupied \cup castling
        deeper == UNION {{call_depth(board, GameContext, get_piece(board, sq[1], sq[2]),
                                     sq[1], sq[2], attack_scan_ignore_check, fuel - 1) :
                             sq \in {o \in Squares :
                                        /\ is_piece_at(board, o[1], o[2])
                                        /\ ~is_same_color(get_piece(board, o[1], o[2]), color)}} :
                         board \in checked}
    IN  IF deeper = {} THEN 1
        ELSE 1 + (CHOOSE d \in deeper : \A e \in deeper : e <= d)

(***************************************************************************)
(* engine.FENConverter.  A FEN string is modelled by its space-separated   *)
(* fields; the piece placement is the sequence of its eight '/'-separated  *)
(* ranks, a rank, the castling field, the en-passant field and a LAN move  *)
(* are sequences of one-character strings.                                 *)
(***************************************************************************)
_PIECE_TO_FEN ==
    [piece_code \in Piece |->
        CASE piece_code = "kl" -> "K" [] piece_code = "ql" -> "Q"
          [] piece_code = "rl" -> "R" [] piece_code = "bl" -> "B"
          [] piece_code = "nl" -> "N" [] piece_code = "pl" -> "P"
          [] piece_code = "kd" -> "k" [] piece_code = "qd" -> "q"
          [] piece_code = "rd" -> "r" [] piece_code = "bd" -> "b"
          [] piece_code = "nd" -> "n" [] piece_code = "pd" -> "p"]

\* chr(ord('a') + i) and ord(ch) - ord('a') on the file letters
FileChars == <<"a", "b", "c", "d", "e", "f", "g", "h">>

_build_piece_placement(game_state) ==
    LET RECURSIVE rank_str(_, _, _)
        \* the rest of the rank from column col on, empty squares pending
        rank_str(row, col, empty) ==
            LET flush == IF empty > 0 THEN <<ToString(empty)>> ELSE << >>
            IN  IF col = 8 THEN flush
                ELSE IF get_piece(game_state, row, col) # ""
                THEN flush \o <<_PIECE_TO_FEN[get_piece(game_state, row, col)]>>
                           \o rank_str(row, col + 1, 0)
                ELSE rank_str(row, col + 1, empty + 1)
    IN  [row \in 1 .. 8 |-> rank_str(row - 1, 0, 0)]

_build_castling(game_context) ==
    LET side(color, col, letter) ==
            IF ~has_king_moved(game_context, color) /\ ~has_rook_moved(game_context, color, col)
            THEN <<letter>> ELSE << >>
        castling == side("l", 7, "K") \o side("l", 0, "Q")
                    \o side("d", 7, "k") \o side("d", 0, "q")
    IN  IF castling = << >> THEN <<"-">> ELSE castling

\* faulty variant of _build_en_passant: the rank is counted from the top
_build_en_passant_from_top(game_context) ==
    LET target == get_en_passant_target(game_context)
    IN  IF target = None THEN <<"-">>
        ELSE <<FileChars[target[2] + 1], ToString(target[1] + 1)>>

_build_en_passant(game_context) ==
    LET target == get_en_passant_target(game_context)
    IN  IF target = None THEN <<"-">>
        ELSE <<FileChars[target[2] + 1], ToString(8 - target[1])>>

to_fen(game_state, game_context) ==
    <<_build_piece_placement(game_state),
      IF current_color(game_context) = "l" THEN "w" ELSE "b",
      _build_castling(game_context),
      _build_en_passant(game_context),
      "0", "1">>

from_lan(lan) ==
    LET ord(ch) == (CHOOSE i \in 1 .. 8 : FileChars[i] = ch) - 1
        int(ch) == CHOOSE n \in 0 .. 9 : ToString(n) = ch
    IN  <<8 - int(lan[2]), ord(lan[1]), 8 - int(lan[4]), ord(lan[3]),
          IF Len(lan) > 4 THEN lan[5] ELSE "">>

(***************************************************************************)
(* The validator called on boards built square by square, as the tests do: *)
(* GameState.empty(), a default GameContext, set_piece and                 *)
(* set_en_passant_target calls drawn from bounded sets, then clear_square  *)
(* on a piece and get_valid_moves for it.                                  *)
(***************************************************************************)
MaxPieces == 4
\* pieces on the board while castling flags and the turn are being set
MaxFlaggedPieces == 0

\* the set_piece calls: Light king and rook at home, pawns of both colours
\* on the f-file at home and on their en-passant ranks, pieces to stand in
\* their way, and Dark sliders and a knight aimed at e1 and f1
Placements ==
    {<<7, 4, "kl">>, <<7, 7, "rl">>, <<0, 4, "kd">>, <<6, 4, "kd">>,
     <<6, 5, "pl">>, <<3, 5, "pl">>, <<1, 5, "pd">>, <<4, 5, "pd">>, <<6, 5, "pd">>,
     <<5, 5, "nd">>, <<5, 5, "nl">>, <<2, 5, "nl">>,
     <<3, 5, "rd">>, <<3, 4, "qd">>, <<5, 6, "bd">>}

InitBoard ==
    /\ state = EmptyBoard
    /\ context = GameContext
    /\ dragging = FALSE
    /\ drag_piece = ""
    /\ drag_piece_start_sq = <<0, 0>>
    /\ drag_piece_cursor_sq = <<0, 0>>
    /\ drag_piece_valid_moves = {}
    /\ pending_promotion = None
    /\ app_state = "PLAYER_MOVE"
    /\ queue = << >>
    /\ batch = << >>
    /\ button = FALSE
    /\ crashed = FALSE
    /\ budget = 0
    /\ mode = "pvp"
    /\ computing = FALSE
    /\ last_computer_move = None
    /\ workers = << >>
    /\ posted_moves = << >>
    /\ menu_budget = 0
    /\ hist = [NoMove EXCEPT !.name = "empty"]

\* GameState.set_piece on an empty square; a colour gets one king
SetPiece(x, y, piece_code) ==
    /\ ~dragging
    /\ PieceCount(state) < MaxPieces
    /\ \/ [context EXCEPT !.en_passant_target = None] = GameContext
       \/ PieceCount(state) < MaxFlaggedPieces
    /\ ~is_piece_at(state, x, y)
    /\ \A sq \in Squares : startswith(piece_code, "k") => state[sq[1]][sq[2]] # piece_code
    /\ state' = set_piece(state, x, y, piece_code)
    /\ Step("placed")
    /\ UNCHANGED <<context, game_vars, app_state, queue, batch, button, crashed,
                   budget, pvc_vars, menu_budget>>

\* GameContext.set_en_passant_target
set_en_passant_target(target) ==
    /\ ~dragging
    /\ get_en_passant_target(context) = None
    /\ context' = [context EXCEPT !.en_passant_target = target]
    /\ Step("target")
    /\ UNCHANGED <<state, game_vars, app_state, queue, batch, button, crashed,
                   budget, pvc_vars, menu_budget>>

\* GameContext.mark_king_moved, mark_rook_moved or switch_turn has been
\* called and left game_context
ContextCall(game_context) ==
    /\ ~dragging
    /\ PieceCount(state) <= MaxFlaggedPieces
    /\ game_context # context
    /\ context' = game_context
    /\ Step("context")
    /\ UNCHANGED <<state, game_vars, app_state, queue, batch, button, crashed,
                   budget, pvc_vars, menu_budget>>

\* clear_square on a piece, then get_valid_moves for it from its square
GetValidMoves(x, y) ==
    /\ ~dragging
    /\ is_piece_at(state, x, y)
    /\ ~get_valid_moves_raises(clear_square(state, x, y), context,
                               get_piece(state, x, y), x, y)
    /\ state' = clear_square(state, x, y)
    /\ dragging' = TRUE
    /\ drag_piece' = get_piece(state, x, y)
    /\ drag_piece_start_sq' = <<x, y>>
    /\ drag_piece_cursor_sq' = <<x, y>>
    /\ drag_piece_valid_moves' =
           get_valid_moves(state', context, get_piece(state, x, y), x, y, FALSE)
    /\ hist' = [hist EXCEPT !.step = "lifted", !.before = state]
    /\ UNCHANGED <<context, pending_promotion, app_state, queue, batch, button,
                   crashed, budget, pvc_vars, menu_budget>>

NextBoard ==
    \/ \E p \in Placements : SetPiece(p[1], p[2], p[3])
    \/ \E target \in {<<2, 4>>, <<5, 4>>, <<2, 3>>} : set_en_passant_target(target)
    \/ \E color \in {"l", "d"}, col \in {0, 7} :
          \E game_context \in {switch_turn(context),
                                [context EXCEPT !.king_moved[color] = TRUE],
                                [context EXCEPT !.rook_moved[color][col] = TRUE]} :
              ContextCall(game_context)
    \/ \E sq \in Squares : GetValidMoves(sq[1], sq[2])

SpecBoard == InitBoard /\ [][NextBoard]_vars

(***************************************************************************)
(* The rules of chess, stated on the board alone, for the properties       *)
(***************************************************************************)
Between(a, b) ==
    LET dx == b[1] - a[1]
        dy == b[2] - a[2]
        n == IF Abs(dx) > Abs(dy) THEN Abs(dx) ELSE Abs(dy)
    IN  {<<a[1] + k * (dx \div n), a[2] + k * (dy \div n)>> : k \in 1 .. (n - 1)}

Aligned(a, b, straight, diagonal) ==
    /\ a # b
    /\ \/ straight /\ (a[1] = b[1] \/ a[2] = b[2])
       \/ diagonal /\ Abs(a[1] - b[1]) = Abs(a[2] - b[2])

\* the piece standing on square a attacks square b
Attacks(b_, a, b) ==
    LET code == b_[a[1]][a[2]]
        dx == b[1] - a[1]
        dy == b[2] - a[2]
        clear == \A m \in Between(a, b) : b_[m[1]][m[2]] = ""
    IN  CASE code = "pl" -> dx = -1 /\ Abs(dy) = 1
          [] code = "pd" -> dx = 1 /\ Abs(dy) = 1
          [] code \in {"nl", "nd"} -> {Abs(dx), Abs(dy)} = {1, 2}
          [] code \in {"kl", "kd"} -> a # b /\ Abs(dx) <= 1 /\ Abs(dy) <= 1
          [] code \in {"rl", "rd"} -> Aligned(a, b, TRUE, FALSE) /\ clear
          [] code \in {"bl", "bd"} -> Aligned(a, b, FALSE, TRUE) /\ clear
          [] code \in {"ql", "qd"} -> Aligned(a, b, TRUE, TRUE) /\ clear
          [] OTHER -> FALSE

Opponent(color) == IF color = "l" THEN "d" ELSE "l"
CodesOf(color) == IF color = "l" THEN LightCodes ELSE DarkCodes

\* square sq is attacked by a piece of colour by
AttackedBy(b_, sq, by) ==
    \E a \in Squares : b_[a[1]][a[2]] \in CodesOf(by) /\ Attacks(b_, a, sq)

KingInCheck(b_, color) ==
    \E k \in Squares : b_[k[1]][k[2]] = KingOf[color] /\ AttackedBy(b_, k, Opponent(color))

\* a piece is held by the mouse (it is off the board but still in play)
Lifted == dragging /\ drag_piece # ""
JustMoved == hist.step = "move"
Mover == get_piece_color(hist.piece)

(***************************************************************************)
(* C1: the destinations offered for a lifted piece never hold a piece of   *)
(* the mover's colour, and after any offered destination is executed       *)
(* (castling and en passant included) the mover's own king is not in check *)
(***************************************************************************)
C1_LegalMovesAreSafe ==
    /\ Lifted =>
          \A m \in drag_piece_valid_moves \cap Squares :
              state[m[1]][m[2]] \notin CodesOf(get_piece_color(drag_piece))
    /\ JustMoved => ~KingInCheck(state, Mover)

\* the side to move has a destination that get_valid_moves returns for
\* one of its pieces, origin vacated, under the given context
HasLegalDestination(game_state, game_context, color) ==
    \E sq \in Squares :
        /\ game_state[sq[1]][sq[2]] \in CodesOf(color)
        /\ get_valid_moves(clear_square(game_state, sq[1], sq[2]), game_context,
                           game_state[sq[1]][sq[2]], sq[1], sq[2], FALSE) # {}

\* no piece is held, the king of the side to move stands on the board and
\* the status functions return
Settled ==
    /\ ~Lifted /\ ~crashed
    /\ \E k \in Squares : state[k[1]][k[2]] = KingOf[current_color(context)]
    /\ ~_post_move_checks_raises(state, current_color(context))

(***************************************************************************)
(* C2: for the side to move, is_in_checkmate is true exactly when its king *)
(* is in check and none of its pieces has a destination that               *)
(* get_valid_moves returns under the session's context (castling flags and *)
(* en-passant target included)                                             *)
(***************************************************************************)
C2_CheckmateIffCheckAndNoMove ==
    Settled =>
        (is_in_checkmate(state, current_color(context))
            <=> /\ KingInCheck(state, current_color(context))
                /\ ~HasLegalDestination(state, context, current_color(context)))

(***************************************************************************)
(* C3: for the side to move, is_in_stalemate is true exactly when its king *)
(* is not in check and none of its pieces has a destination under the      *)
(* session's context; such a position is never reported as checkmate       *)
(***************************************************************************)
C3_StalemateIffNoCheckAndNoMove ==
    Settled =>
        /\ is_in_stalemate(state, current_color(context))
              <=> /\ ~KingInCheck(state, current_color(context))
                  /\ ~HasLegalDestination(state, context, current_color(context))
        /\ ~KingInCheck(state, current_color(context))
              => ~is_in_checkmate(state, current_color(context))

\* the king of the colour is lifted off its home square
HomeRow(color) == IF color = "l" THEN 7 ELSE 0
KingLiftedAtHome(color) ==
    /\ Lifted /\ ~crashed
    /\ drag_piece = KingOf[color]
    /\ drag_piece_start_sq = <<HomeRow(color), 4>>

\* the castling destination toward the corner in column col
CastleSquare(color, col) == <<HomeRow(color), IF col = 7 THEN 6 ELSE 2>>
CastlingOffered(color, col) ==
    /\ KingLiftedAtHome(color)
    /\ CastleSquare(color, col) \in drag_piece_valid_moves

(***************************************************************************)
(* C4: with the king lifted off its home square, no castling destination   *)
(* is offered while an opposing piece attacks the home square              *)
(***************************************************************************)
C4_NoCastlingOutOfCheck ==
    \A color \in {"l", "d"} : \A col \in {0, 7} :
        CastlingOffered(color, col)
            => ~AttackedBy(state, <<HomeRow(color), 4>>, Opponent(color))

\* the board with the lifted king back on its home square
KingRestored(color) == set_piece(state, HomeRow(color), 4, KingOf[color])
\* the columns the king passes through and lands on, and those between
\* king and rook
PathCols(col) == IF col = 7 THEN {5, 6} ELSE {2, 3}
BetweenCols(col) == IF col = 7 THEN {5, 6} ELSE {1, 2, 3}

(***************************************************************************)
(* C5: a castling destination is offered only if no square the king passes *)
(* through or lands on is attacked, every square between king and rook is  *)
(* empty, and the rook of the king's colour stands on the home corner      *)
(***************************************************************************)
C5_CastlingPathClearAndSafe ==
    \A color \in {"l", "d"} : \A col \in {0, 7} :
        CastlingOffered(color, col) =>
            /\ state[HomeRow(color)][col] = RookOf[color]
            /\ \A y \in BetweenCols(col) : state[HomeRow(color)][y] = ""
            /\ \A y \in PathCols(col) :
                  ~AttackedBy(KingRestored(color), <<HomeRow(color), y>>, Opponent(color))

\* kingside castling is refused because f1 is attacked although the rook is
\* home, the squares are empty and the flags allow it; queenside is offered
C5_Witness ==
    /\ KingLiftedAtHome("l")
    /\ state[7][7] = "rl" /\ state[7][5] = "" /\ state[7][6] = ""
    /\ ~has_king_moved(context, "l") /\ ~has_rook_moved(context, "l", 7)
    /\ AttackedBy(KingRestored("l"), <<7, 5>>, "d")
    /\ ~AttackedBy(KingRestored("l"), <<7, 6>>, "d")
    /\ ~CastlingOffered("l", 7)
    /\ CastlingOffered("l", 0)

\* no castling flag that is set is cleared by the step
FlagsOnlySet ==
    \A color \in {"l", "d"} :
        /\ context.king_moved[color] => context'.king_moved[color]
        /\ \A col \in {0, 7} :
              context.rook_moved[color][col] => context'.rook_moved[color][col]

\* every corner whose castling the rules have ended is flagged in the
\* context, and castling toward such a corner is not offered
DeadCornersStayDead ==
    /\ hist.dead \subseteq DeadCorners(context)
    /\ \A color \in {"l", "d"} : \A col \in {0, 7} :
          CastlingOffered(color, col) => <<color, col>> \notin hist.dead

(***************************************************************************)
(* C6: once a king has moved, or a corner rook has moved away or been      *)
(* captured on its corner, castling toward that corner is never offered    *)
(* again, even with king and rook back home and the path clear; castling   *)
(* flags are only ever set, never cleared                                  *)
(***************************************************************************)
C6_CastlingRightsNeverReturn ==
    [][FlagsOnlySet /\ DeadCornersStayDead']_vars

\* the rook is back on h1 after having left it, the king never moved, the
\* path is empty and unattacked, and kingside castling is not offered
C6_Witness ==
    /\ hist.name = "castle_return"
    /\ KingLiftedAtHome("l")
    /\ hist.piece = "kd" /\ hist.prev_piece = "rl" /\ hist.prev_to = <<7, 7>>
    /\ state[7][7] = "rl" /\ state[7][5] = "" /\ state[7][6] = ""
    /\ ~has_king_moved(context, "l")
    /\ <<"l", 7>> \in hist.dead
    /\ \A y \in {4, 5, 6} : ~AttackedBy(KingRestored("l"), <<7, y>>, "d")
    /\ ~CastlingOffered("l", 7)
    \* the flag alone withholds it
    /\ <<7, 6>> \in _add_castling_moves(state, "kl", 7, 4,
                        [context EXCEPT !.rook_moved["l"][7] = FALSE])

\* the last executed move was a two-square pawn advance
IsPawn(code) == code \in {"pl", "pd"}
DoubleStep(piece, from, to) ==
    /\ IsPawn(piece)
    /\ from # None /\ to # None
    /\ Abs(to[1] - from[1]) = 2
SkippedSquare(from, to) == <<(from[1] + to[1]) \div 2, from[2]>>

(***************************************************************************)
(* C7: after each executed move the en-passant target is the skipped       *)
(* square exactly when the move was a two-square pawn advance and None     *)
(* after every other move; an en-passant destination is offered only to    *)
(* the reply that immediately follows the advance                          *)
(***************************************************************************)
C7_EnPassantTargetOneReply ==
    /\ JustMoved =>
          context.en_passant_target =
              (IF DoubleStep(hist.piece, hist.from, hist.to)
               THEN SkippedSquare(hist.from, hist.to) ELSE None)
    /\ (Lifted /\ ~crashed /\ IsPawn(drag_piece)) =>
          \A m \in drag_piece_valid_moves \cap Squares :
              (m[2] # drag_piece_start_sq[2] /\ state[m[1]][m[2]] = "") =>
                  /\ DoubleStep(hist.piece, hist.from, hist.to)
                  /\ get_piece_color(hist.piece) # get_piece_color(drag_piece)
                  /\ m = SkippedSquare(hist.from, hist.to)

\* a move that is no pawn advance answers a two-square advance: the target
\* that advance had set is gone
C7_Witness ==
    /\ JustMoved
    /\ DoubleStep(hist.prev_piece, hist.prev_from, hist.prev_to)
    /\ hist.context_before.en_passant_target = SkippedSquare(hist.prev_from, hist.prev_to)
    /\ ~DoubleStep(hist.piece, hist.from, hist.to)
    /\ context.en_passant_target = None

\* a promotion is pending and is still pending after the step
StillPending == pending_promotion # None /\ pending_promotion' # None
\* the step completes the pending promotion
Completes == pending_promotion # None /\ pending_promotion' = None

(***************************************************************************)
(* C8: a pawn moved onto its far rank is reported as a promotion on that   *)
(* square; while the promotion is pending the side to move does not        *)
(* change; completing it replaces the pawn in place by a piece of the same *)
(* colour and flips the side to move once                                  *)
(***************************************************************************)
C8_PromotionHoldsTheTurn ==
    [][/\ (hist'.step = "move" /\ IsPawn(hist'.piece)
              /\ hist'.to[1] = (IF hist'.piece = "pl" THEN 0 ELSE 7))
          => (hist'.is_promotion /\ pending_promotion' = hist'.to)
       /\ StillPending => context'.is_light_turn = context.is_light_turn
       /\ Completes =>
             /\ context'.is_light_turn = ~context.is_light_turn
             /\ IsPawn(state[pending_promotion[1]][pending_promotion[2]])
             /\ state'[pending_promotion[1]][pending_promotion[2]]
                    \in (CodesOf(get_piece_color(
                            state[pending_promotion[1]][pending_promotion[2]]))
                         \ {"pl", "pd", "kl", "kd"})
             /\ \A sq \in Squares \ {pending_promotion} :
                    state'[sq[1]][sq[2]] = state[sq[1]][sq[2]]
      ]_vars

\* the square a lifted piece was taken from is empty (a promotion completed
\* while its pawn is lifted puts a piece there; no move is executed by that)
LiftedFromEmpty ==
    Lifted => state[drag_piece_start_sq[1]][drag_piece_start_sq[2]] = ""

(***************************************************************************)
(* C9: counting a lifted piece as in play, an executed move lowers the     *)
(* number of pieces by one exactly when it is reported as a capture and    *)
(* leaves it unchanged otherwise; so moves without capture, castling and   *)
(* promotion included, keep the count the position started with (32 from   *)
(* the standard layout)                                                    *)
(***************************************************************************)
C9_PieceCount ==
    /\ JustMoved =>
          PieceCount(state) =
              PieceCount(hist.before) + 1 - (IF hist.is_capture THEN 1 ELSE 0)
    /\ (~crashed /\ hist.captures = 0 /\ hist.lost = 0 /\ LiftedFromEmpty) =>
          /\ PieceCount(state) + (IF Lifted THEN 1 ELSE 0) = hist.count0
          /\ hist.name = "start" =>
                 PieceCount(state) + (IF Lifted THEN 1 ELSE 0) = 32

\* an ordinary capture has just taken the count one below the start
C9_Witness ==
    /\ JustMoved
    /\ hist.is_capture /\ ~hist.is_en_passant
    /\ hist.before[hist.to[1]][hist.to[2]] # ""
    /\ PieceCount(state) = hist.count0 - 1

(***************************************************************************)
(* C10: when an executed move is classified as en passant, the square      *)
(* (from.row, to.col) held an opposing pawn that made a two-square advance *)
(* on the immediately preceding move, exactly that pawn is removed, the    *)
(* destination was empty and the move is reported as a capture             *)
(***************************************************************************)
C10_EnPassantCapture ==
    (JustMoved /\ hist.is_en_passant) =>
        LET captured == <<hist.from[1], hist.to[2]>>
        IN  /\ hist.before[hist.to[1]][hist.to[2]] = ""
            /\ IsPawn(hist.before[captured[1]][captured[2]])
            /\ get_piece_color(hist.before[captured[1]][captured[2]])
                   # get_piece_color(hist.piece)
            /\ hist.prev_piece = hist.before[captured[1]][captured[2]]
            /\ hist.prev_to = captured
            /\ DoubleStep(hist.prev_piece, hist.prev_from, hist.prev_to)
            /\ hist.is_capture
            /\ state[captured[1]][captured[2]] = ""
            /\ state[hist.to[1]][hist.to[2]] = hist.piece
            /\ \A sq \in Squares \ {captured, hist.to} :
                   state[sq[1]][sq[2]] = hist.before[sq[1]][sq[2]]

\* an en-passant capture has just been executed
C10_Witness ==
    /\ JustMoved /\ hist.is_en_passant
    /\ hist.to = hist.context_before.en_passant_target
    /\ PieceCount(state) = PieceCount(hist.before)

(***************************************************************************)
(* C11.  A status query (is_in_check, is_in_checkmate, is_in_stalemate,    *)
(* and the get_valid_moves calls they make) leaves every square of the     *)
(* board, the castling flags, the en passant target and the side to move   *)
(* as they were: every piece vacated while scanning is put back.           *)
(***************************************************************************)
QueryStep == hist'.step = "query" /\ hist'.before = state /\ hist # hist'

C11_QueriesChangeNothing ==
    [][QueryStep => (state' = state /\ context' = context)]_vars

(***************************************************************************)
(* C12.  A lifted piece dropped on a square that is not one of its legal   *)
(* destinations (its origin included) goes back to its origin, and the     *)
(* board, the castling flags, the en passant target and the side to move   *)
(* are then exactly what they were before the piece was picked up.         *)
(***************************************************************************)
RejectStep == hist'.step = "reject" /\ button /\ ~button'

C12_RejectedDropRestores ==
    [][RejectStep => /\ state' = hist.pickup_board
                     /\ context' = hist.pickup_context]_vars

(***************************************************************************)
(* C13.  Game.complete_promotion called while no promotion is pending      *)
(* changes no square of the board and no field of the context, does not    *)
(* flip the turn, posts no event and leaves no promotion pending.          *)
(***************************************************************************)
NoPromotionStep == hist'.step = "no_promotion"

C13_PromoteWithoutPendingIsNoOp ==
    [][NoPromotionStep => /\ pending_promotion = None
                          /\ state' = state
                          /\ context' = context
                          /\ pending_promotion' = None
                          /\ queue' = queue
                          /\ crashed' = crashed]_vars

\* the call was made in the middle of a game, after a move
C13_Witness ==
    /\ hist.step = "no_promotion"
    /\ hist.piece # ""
    /\ pending_promotion = None
    /\ hist.before = state /\ hist.context_before = context

(***************************************************************************)
(* C16.  After an executed castling move the king stands on column 6       *)
(* (kingside) or 2 (queenside) of its home row, the rook that stood on     *)
(* column 7 or 0 of that row stands on column 5 or 3, the home square of   *)
(* the king and the corner of the rook are empty, no other square has      *)
(* changed, and the board holds exactly one king of each colour.           *)
(***************************************************************************)
Castled ==
    /\ JustMoved
    /\ startswith(hist.piece, "k")
    /\ Abs(hist.to[2] - hist.from[2]) = 2

KingCount(game_state, color) ==
    Cardinality({sq \in Squares : game_state[sq[1]][sq[2]] = KingOf[color]})

C16_CastlingMovesKingAndRook ==
    Castled =>
        LET row == HomeRow(Mover)
            corner == IF hist.to[2] = 6 THEN 7 ELSE 0
            rook_col == IF hist.to[2] = 6 THEN 5 ELSE 3
        IN  /\ hist.from = <<row, 4>>
            /\ hist.to \in {<<row, 6>>, <<row, 2>>}
            /\ hist.before[row][corner] = RookOf[Mover]
            /\ state[row][hist.to[2]] = KingOf[Mover]
            /\ state[row][rook_col] = RookOf[Mover]
            /\ state[row][4] = ""
            /\ state[row][corner] = ""
            /\ \A sq \in Squares \ {<<row, 4>>, <<row, corner>>, <<row, rook_col>>, hist.to} :
                   state[sq[1]][sq[2]] = hist.before[sq[1]][sq[2]]
            /\ \A color \in {"l", "d"} : KingCount(state, color) = 1

\* Light has castled queenside: king c1, rook d1, a1 and e1 empty
C16_Witness ==
    /\ Castled
    /\ hist.from = <<7, 4>> /\ hist.to = <<7, 2>>
    /\ hist.before[7][0] = "rl"
    /\ state[7][2] = "kl" /\ state[7][3] = "rl"

(***************************************************************************)
(* Steps of the application, recognised from the two states of a step      *)
(***************************************************************************)
\* MOUSEBUTTONUP executed a move of the held piece
MoveStep == button /\ ~button' /\ hist'.step = "move"
\* EVENT_COMPUTER_MOVE was handled and its move applied
ComputerStep ==
    /\ batch # << >> /\ Head(batch) = "EVENT_COMPUTER_MOVE"
    /\ batch' = Tail(batch)
    /\ hist'.step = "computer"
\* the promotion menu completed a pending promotion
PromoteStep ==
    /\ app_state = "PROMOTION" /\ app_state' = "PLAYER_MOVE"
    /\ pending_promotion # None
\* the start menu created a new game
StartStep == app_state = "START" /\ app_state' = "PLAYER_MOVE"

(***************************************************************************)
(* C17.  Against the computer, a computer move is applied only to the      *)
(* position it was computed from: when EVENT_COMPUTER_MOVE is handled and  *)
(* its move applied, the board and the context of the session are those    *)
(* the search read, even if a new game was started in the meantime.        *)
(***************************************************************************)
C17_ComputerMoveFitsPosition ==
    [][ComputerStep => /\ state = Head(posted_moves).state
                       /\ context = Head(posted_moves).context]_vars

(***************************************************************************)
(* C20.  Against the computer the human moves Light pieces only: a move    *)
(* executed on a mouse release moves a Light piece, so that Dark pieces    *)
(* are moved by EVENT_COMPUTER_MOVE alone.                                 *)
(***************************************************************************)
C20_HumanMovesLightOnly ==
    [][(mode = "pvc" /\ MoveStep) => get_piece_color(hist'.piece) = "l"]_vars

(***************************************************************************)
(* C15.  A press lifts a piece only if the pressed square holds a piece of *)
(* the side to move; a press on an empty square or on a piece of the other *)
(* side leaves the board unchanged and no piece held; so a move executed   *)
(* on a mouse release is always a move of the side to move.                *)
(***************************************************************************)
PressStep == ~button /\ button' /\ app_state = "PLAYER_MOVE" /\ ~blocked

C15_OnlySideToMoveIsMoved ==
    [][/\ (PressStep /\ drag_piece' # "") =>
              /\ is_turn(context, drag_piece')
              /\ state[drag_piece_start_sq'[1]][drag_piece_start_sq'[2]] = drag_piece'
       /\ (PressStep /\ drag_piece' = "") =>
              /\ state' = state /\ context' = context
              /\ ~(\E sq \in Squares : /\ state[sq[1]][sq[2]] # ""
                                       /\ is_turn(context, state[sq[1]][sq[2]])
                                       /\ state'[sq[1]][sq[2]] = "")
       /\ MoveStep => get_piece_color(hist'.piece) = current_color(context)]_vars

(***************************************************************************)
(* C14.  Light moves first in a new game, and within a game the side to    *)
(* move flips once on every completed move (a legal drop that is not a     *)
(* promotion, a completed promotion, an applied computer move) and on no   *)
(* other step: not on a pick-up, a rejected drop, a drop that leaves a     *)
(* promotion pending, or the handling of any other event.                  *)
(***************************************************************************)
TurnFlips == context'.is_light_turn # context.is_light_turn

C14_TurnFlipsOncePerCompletedMove ==
    [][IF StartStep
       THEN context'.is_light_turn
       ELSE TurnFlips <=> \/ MoveStep /\ ~hist'.is_promotion
                          \/ PromoteStep
                          \/ ComputerStep]_vars

\* Light has moved, the computer has answered, and Light is to move again
C14_Witness ==
    /\ hist.step = "computer"
    /\ get_piece_color(hist.piece) = "d"
    /\ get_piece_color(hist.prev_piece) = "l"
    /\ ~hist.context_before.is_light_turn
    /\ context.is_light_turn
    /\ ~computing

(***************************************************************************)
(* C18.  A game started from the start menu, whatever game came before,    *)
(* begins with the standard layout of 32 pieces, Light to move, no king or *)
(* rook marked as moved, no en passant target, no piece held and no        *)
(* promotion pending.                                                      *)
(***************************************************************************)
BackRank == <<"r", "n", "b", "q", "k", "b", "n", "r">>
StandardLayout(game_state) ==
    /\ PieceCount(game_state) = 32
    /\ \A y \in Idx :
          /\ game_state[0][y] \in CodesOfKind[BackRank[y + 1]] \cap CodesOf("d")
          /\ game_state[1][y] = "pd"
          /\ game_state[6][y] = "pl"
          /\ game_state[7][y] \in CodesOfKind[BackRank[y + 1]] \cap CodesOf("l")

C18_NewGameIsFresh ==
    [][StartStep =>
          /\ StandardLayout(state')
          /\ context'.is_light_turn
          /\ \A color \in {"l", "d"} :
                /\ ~has_king_moved(context', color)
                /\ \A col \in {0, 7} : ~has_rook_moved(context', color, col)
          /\ get_en_passant_target(context') = None
          /\ ~dragging' /\ drag_piece' = ""
          /\ pending_promotion' = None]_vars

\* a game has just been started after one whose board and turn differed
C18_Witness ==
    /\ hist.step = "start"
    /\ app_state = "PLAYER_MOVE"
    /\ ~StandardLayout(hist.before)
    /\ ~hist.context_before.is_light_turn
    /\ StandardLayout(state)
    /\ context = GameContext

(***************************************************************************)
(* C19.  Against the computer, while the search is running (_computing),   *)
(* no mouse event changes the board, the drag state, the context or the    *)
(* side to move.                                                           *)
(***************************************************************************)
\* a mouse event was handled: the button went down or up, or the cursor
\* moved (a new game also resets the cursor; that is not a mouse event)
MouseStep ==
    /\ button' # button \/ drag_piece_cursor_sq' # drag_piece_cursor_sq
    /\ ~StartStep

C19_InputBlockedWhileComputing ==
    [][(mode = "pvc" /\ computing /\ MouseStep) =>
          /\ state' = state
          /\ context' = context
          /\ UNCHANGED game_vars
          /\ computing']_vars

\* a piece of the side to move was pressed and released while the search ran
C19_Witness ==
    /\ mode = "pvc" /\ computing /\ app_state = "PLAYER_MOVE"
    /\ hist.step = "blocked"
    /\ ~button /\ budget < MaxPressThinking
    /\ ~context.is_light_turn
    /\ drag_piece = ""
    /\ \E sq \in Squares : state[sq[1]][sq[2]] = "pd"

(***************************************************************************)
(* C21.  Against the computer, a search is started by a completed move     *)
(* exactly when the new side to move is Dark and Dark is neither           *)
(* checkmated nor stalemated; no other step starts one, and in particular  *)
(* none is started by the computer's own move.                             *)
(***************************************************************************)
CompletedStep ==
    \/ MoveStep /\ ~hist'.is_promotion
    \/ PromoteStep
    \/ ComputerStep
SearchStarts == Len(workers') > Len(workers) /\ computing'
DarkCanPlay(game_state, game_context) ==
    /\ current_color(game_context) = _COMPUTER_COLOR
    /\ ~is_in_checkmate(game_state, _COMPUTER_COLOR)
    /\ ~is_in_stalemate(game_state, _COMPUTER_COLOR)

C21_SearchStartsOnDarkTurn ==
    [][/\ (mode = "pvc" /\ CompletedStep /\ ~crashed') =>
              (SearchStarts <=> DarkCanPlay(state', context'))
       /\ (mode = "pvc" /\ ~CompletedStep /\ ~StartStep) => Len(workers') <= Len(workers)
       /\ ComputerStep => ~SearchStarts]_vars

(***************************************************************************)
(* C22.  A computer move whose source square is empty is ignored: the      *)
(* board, the context with the side to move and the highlight of the last  *)
(* computer move stay as they are, and the computing flag is cleared.      *)
(***************************************************************************)
IgnoredStep ==
    /\ batch # << >> /\ Head(batch) = "EVENT_COMPUTER_MOVE"
    /\ batch' = Tail(batch)
    /\ app_state = "PLAYER_MOVE" /\ mode = "pvc"
    /\ LET move_data == Head(posted_moves).move_data
       IN  get_piece(state, move_data[1], move_data[2]) = ""

C22_MoveFromEmptySquareIgnored ==
    [][IgnoredStep => /\ state' = state
                      /\ context' = context
                      /\ last_computer_move' = last_computer_move
                      /\ ~computing'
                      /\ workers' = workers
                      /\ queue' = queue]_vars

\* an ignored move arrived while a search was running and a highlight was
\* shown: the highlight is still there and the flag is down
C22_Witness ==
    /\ hist.step = "ignored"
    /\ mode = "pvc" /\ ~computing
    /\ last_computer_move # None
    /\ workers # << >>

(***************************************************************************)
(* C23.  The game object receives events only in PLAYER_MOVE: while the    *)
(* application is in START, PAUSE, GAME_OVER or PROMOTION, no mouse event, *)
(* key or posted event handled by the manager changes anything the game    *)
(* holds; and the application enters PAUSE only by Escape pressed in       *)
(* PLAYER_MOVE.                                                            *)
(***************************************************************************)
EscapeStep == menu_budget' = menu_budget - 1 /\ ~StartStep
EventStep ==
    \/ MouseStep
    \/ EscapeStep
    \/ batch # << >> /\ batch' = Tail(batch)

C23_EventsReachGameOnlyInPlayerMove ==
    [][/\ (app_state # "PLAYER_MOVE" /\ EventStep) =>
              /\ state' = state /\ context' = context
              /\ UNCHANGED game_vars
              /\ UNCHANGED <<computing, workers, last_computer_move>>
       /\ (app_state # "PLAYER_MOVE" /\ EscapeStep) => app_state' = app_state
       /\ (app_state # "PAUSE" /\ app_state' = "PAUSE") =>
              (app_state = "PLAYER_MOVE" /\ EscapeStep)]_vars

\* the computer's move arrived while the game was paused and was dropped:
\* the search has ended, its event is gone and the flag is still up
C23_Witness ==
    /\ app_state = "PAUSE"
    /\ hist.step = "dropped"
    /\ mode = "pvc" /\ computing
    /\ workers = << >> /\ posted_moves = << >>
    /\ queue = << >> /\ batch = << >>

(***************************************************************************)
(* C24.  After each completed move exactly one outcome is signalled for    *)
(* the new side to move: when it is in check and has no legal move the win *)
(* event of the side that just moved is posted (EVENT_BLACK_WINS when      *)
(* Light is mated, EVENT_WHITE_WINS when Dark is mated), when it is not in *)
(* check and has no legal move EVENT_DRAW is posted, and otherwise nothing *)
(* is posted; and each game-over event the manager handles moves the       *)
(* application to GAME_OVER.                                               *)
(***************************************************************************)
GameOverEvents == {"EVENT_WHITE_WINS", "EVENT_BLACK_WINS", "EVENT_DRAW"}
\* the event the position calls for: checkmate and stalemate of the side
\* to move, judged under the session's context
Outcome(game_state, game_context) ==
    LET color == current_color(game_context)
    IN  IF HasLegalDestination(game_state, game_context, color) THEN ""
        ELSE IF ~KingInCheck(game_state, color) THEN "EVENT_DRAW"
        ELSE IF color = "l" THEN "EVENT_BLACK_WINS"
        ELSE "EVENT_WHITE_WINS"

C24_OutcomeSignalledAfterMove ==
    [][/\ (CompletedStep /\ ~crashed') =>
              queue' = (IF Outcome(state', context') = "" THEN queue
                        ELSE Append(queue, Outcome(state', context')))
       /\ (batch # << >> /\ batch' = Tail(batch) /\ Head(batch) \in GameOverEvents) =>
              app_state' = "GAME_OVER"]_vars

(***************************************************************************)
(* C25.  is_in_check(board, color) is true exactly when some piece of the  *)
(* other colour could move onto the square of color's king by its own      *)
(* movement rule: a pawn by its diagonal capture only, a rook, bishop or   *)
(* queen along a ray with no piece in between, a knight by its jump, a     *)
(* king to an adjacent square; whether that move would leave the attacker's*)
(* own king in check plays no part.                                        *)
(***************************************************************************)
C25_CheckIffKingSquareAttacked ==
    \A color \in {"l", "d"} :
        (/\ \E k \in Squares : state[k[1]][k[2]] = KingOf[color]
         /\ ~is_in_check_raises(state, color))
            => (is_in_check(state, color) <=> KingInCheck(state, color))

\* the Light king stands in check from a Dark piece that may not move:
\* the Dark king is itself attacked
C25_Witness ==
    /\ ~dragging
    /\ is_in_check(state, "l") /\ is_in_check(state, "d")
    /\ \E k \in Squares : state[k[1]][k[2]] = "kl"
    /\ \E k \in Squares : state[k[1]][k[2]] = "kd"

(***************************************************************************)
(* C26.  A lifted pawn is offered its two-square advance only from its     *)
(* home rank (row 6 for Light, row 1 for Dark) and only when the square it *)
(* passes over and the square it lands on are both empty, and then it is   *)
(* offered unless the advance leaves its own king in check; a piece of     *)
(* either colour on the square in front of the pawn removes the one-square *)
(* and the two-square advance alike.                                       *)
(***************************************************************************)
C26_DoubleStepFromHomeThroughEmpty ==
    (Lifted /\ ~crashed /\ IsPawn(drag_piece)) =>
        LET color == get_piece_color(drag_piece)
            dir == IF color = "l" THEN -1 ELSE 1
            row == drag_piece_start_sq[1]
            col == drag_piece_start_sq[2]
            one == <<row + dir, col>>
            two == <<row + 2 * dir, col>>
            at_home == row = (IF color = "l" THEN 6 ELSE 1)
            empty(sq) == sq \in Squares /\ state[sq[1]][sq[2]] = ""
            has_king == \E k \in Squares : state[k[1]][k[2]] = KingOf[color]
            exposes(sq) == KingInCheck(set_piece(state, sq[1], sq[2], drag_piece), color)
        IN  /\ two \in drag_piece_valid_moves => (at_home /\ empty(one) /\ empty(two))
            /\ (at_home /\ empty(one) /\ empty(two) /\ has_king /\ ~exposes(two))
                  => two \in drag_piece_valid_moves
            /\ ~empty(one) => (one \notin drag_piece_valid_moves
                               /\ two \notin drag_piece_valid_moves)

\* a pawn lifted from its home rank with a piece right in front of it and
\* the square beyond empty: no advance is offered
C26_Witness ==
    /\ Lifted /\ ~crashed /\ IsPawn(drag_piece)
    /\ drag_piece_start_sq[1] = (IF drag_piece = "pl" THEN 6 ELSE 1)
    /\ LET dir == IF drag_piece = "pl" THEN -1 ELSE 1
           row == drag_piece_start_sq[1]
           col == drag_piece_start_sq[2]
       IN  /\ state[row + dir][col] # ""
           /\ state[row + 2 * dir][col] = ""
           /\ <<row + 2 * dir, col>> \notin drag_piece_valid_moves

C28_EmptyDiagonalOnlyEnPassant ==
    (Lifted /\ ~crashed /\ IsPawn(drag_piece)) =>
        LET color == get_piece_color(drag_piece)
            dir == IF color = "l" THEN -1 ELSE 1
            row == drag_piece_start_sq[1]
            col == drag_piece_start_sq[2]
            target == get_en_passant_target(context)
            diagonal(m) == m[1] = row + dir /\ Abs(m[2] - col) = 1
            on_rank == row = (IF color = "l" THEN 3 ELSE 4)
            has_king == \E k \in Squares : state[k[1]][k[2]] = KingOf[color]
            exposes(m) == KingInCheck(set_piece(state, m[1], m[2], drag_piece), color)
        IN  /\ \A m \in drag_piece_valid_moves :
                  (diagonal(m) /\ state[m[1]][m[2]] = "") => (m = target /\ on_rank)
            /\ (/\ target # None /\ on_rank /\ diagonal(target)
                /\ has_king /\ ~exposes(target))
                  => target \in drag_piece_valid_moves

\* a pawn lifted from its en-passant rank is offered the empty target
\* square beside its file
C28_Witness ==
    /\ Lifted /\ ~crashed /\ IsPawn(drag_piece)
    /\ get_en_passant_target(context) # None
    /\ get_en_passant_target(context) \in drag_piece_valid_moves
    /\ state[get_en_passant_target(context)[1]][get_en_passant_target(context)[2]] = ""
    /\ get_en_passant_target(context)[2] # drag_piece_start_sq[2]

C30_FenReflectsSession ==
    \A fen \in {to_fen(state, context)} :
        LET target == get_en_passant_target(context)
            right(color, col) ==
                ~has_king_moved(context, color) /\ ~has_rook_moved(context, color, col)
            letters == {<<"K", "l", 7>>, <<"Q", "l", 0>>, <<"k", "d", 7>>, <<"q", "d", 0>>}
            field == {fen[3][i] : i \in 1 .. Len(fen[3])}
            code_of(ch) == CHOOSE piece_code \in Piece : _PIECE_TO_FEN[piece_code] = ch
            is_piece(ch) == \E piece_code \in Piece : _PIECE_TO_FEN[piece_code] = ch
            RECURSIVE expand(_)
            expand(rank) ==
                IF rank = << >> THEN << >>
                ELSE (IF is_piece(Head(rank)) THEN <<code_of(Head(rank))>>
                      ELSE [k \in 1 .. (CHOOSE n \in 1 .. 8 : ToString(n) = Head(rank)) |-> ""])
                     \o expand(Tail(rank))
        IN  /\ fen[2] = (IF current_color(context) = "l" THEN "w" ELSE "b")
            /\ \A l \in letters : l[1] \in field <=> right(l[2], l[3])
            /\ field \subseteq {"K", "Q", "k", "q", "-"}
            /\ "-" \in field <=> \A l \in letters : ~right(l[2], l[3])
            /\ Len(fen[3]) = Cardinality(field)
            /\ target = None <=> fen[4] = <<"-">>
            /\ target # None =>
                  from_lan(fen[4] \o fen[4]) = <<target[1], target[2], target[1], target[2], "">>
            /\ \A x \in Idx : expand(fen[1][x + 1]) = [k \in 1 .. 8 |-> state[x][k - 1]]

\* Dark to move, an en-passant target set, and castling left on some
\* corners and lost on others
C30_Witness ==
    /\ current_color(context) = "d"
    /\ get_en_passant_target(context) # None
    /\ has_king_moved(context, "d") /\ ~has_king_moved(context, "l")
    /\ has_rook_moved(context, "l", 0) /\ ~has_rook_moved(context, "l", 7)
    /\ to_fen(state, context)[3] = <<"K">>

(***************************************************************************)
(* C31.  get_valid_moves, is_in_check, is_in_checkmate and is_in_stalemate *)
(* return on every board: the recursion between move generation and check  *)
(* detection is at most two get_valid_moves calls deep, because the attack *)
(* scan of is_in_check generates moves with ignore_check set, and such a   *)
(* call reaches neither is_in_check nor the castling evaluation.           *)
(***************************************************************************)
C31_RecursionDepthAtMostTwo ==
    /\ (Lifted /\ ~crashed) =>
          call_depth(state, context, drag_piece, drag_piece_start_sq[1],
                     drag_piece_start_sq[2], FALSE, MaxDepth) <= 2
    /\ ~dragging =>
          \A sq \in Squares : is_piece_at(state, sq[1], sq[2]) =>
              \* the scan of is_in_checkmate / is_in_stalemate, origin vacated
              /\ call_depth(clear_square(state, sq[1], sq[2]), GameContext,
                            get_piece(state, sq[1], sq[2]), sq[1], sq[2], FALSE, MaxDepth) <= 2
              \* the attack scan of is_in_check
              /\ call_depth(state, GameContext, get_piece(state, sq[1], sq[2]),
                            sq[1], sq[2], attack_scan_ignore_check, MaxDepth) = 1

\* a king lifted from its home square with castling to evaluate and an
\* opposing piece to scan: the call goes two deep and returns destinations
C31_Witness ==
    /\ KingLiftedAtHome("l")
    /\ ~has_king_moved(context, "l")
    /\ \E sq \in Squares : state[sq[1]][sq[2]] \in DarkCodes
    /\ drag_piece_valid_moves # {}
    /\ call_depth(state, context, drag_piece, 7, 4, FALSE, MaxDepth) = 2

(***************************************************************************)
(* C32.  The rook-moved flag of a corner is set only by a move of the rook *)
(* that stands on that corner or by a move that lands on that corner: a    *)
(* move of another rook of the same colour, or of any other piece that     *)
(* does not touch the corner, leaves the flag as it was.                   *)
(***************************************************************************)
C32_OnlyCornerMovesRevoke ==
    [][(MoveStep \/ ComputerStep) =>
          \A color \in {"l", "d"} : \A col \in {0, 7} :
              (~has_rook_moved(context, color, col) /\ has_rook_moved(context', color, col))
                  => \/ /\ hist'.piece = RookOf[color]
                        /\ hist'.from = <<HomeRow(color), col>>
                     \/ hist'.to = <<HomeRow(color), col>>]_vars

(***************************************************************************)
(* C33.  In every state reached by dragged moves (a lifted piece counted   *)
(* on the square it was lifted from), a colour whose king-moved flag and   *)
(* whose rook-moved flag of a corner are both false has its king on column *)
(* 4 of its home row and one of its rooks on that corner.                  *)
(***************************************************************************)
C33_UnmovedFlagsMeanHomeSquares ==
    LET held == IF Lifted
                THEN set_piece(state, drag_piece_start_sq[1], drag_piece_start_sq[2], drag_piece)
                ELSE state
    IN  \A color \in {"l", "d"} : \A col \in {0, 7} :
            (~has_king_moved(context, color) /\ ~has_rook_moved(context, color, col))
                => /\ held[HomeRow(color)][4] = KingOf[color]
                   /\ held[HomeRow(color)][col] = RookOf[color]

\* a rook has left its corner while the other corner keeps its right
C33_Witness ==
    /\ JustMoved /\ hist.piece = "rl" /\ hist.from = <<7, 0>>
    /\ ~has_king_moved(context, "l")
    /\ has_rook_moved(context, "l", 0) /\ ~has_rook_moved(context, "l", 7)
    /\ state[7][4] = "kl" /\ state[7][7] = "rl" /\ state[7][0] = ""

(***************************************************************************)
(* C34.  Against the computer, with the search returning and the queued    *)
(* events being handled, a game whose computing flag is set eventually has *)
(* the flag cleared (the computer's move applied), unless the game is      *)
(* resigned or the program stops: the human is never blocked forever.      *)
(***************************************************************************)
C34_SearchEndsAndInputReturns ==
    (mode = "pvc" /\ computing /\ app_state # "START")
        ~> (~computing \/ app_state = "START" \/ crashed)

(***************************************************************************)
(* C35.  Whatever the input events, a piece lifted by drag_start stays in  *)
(* play until it is placed by an executed move or put back on its origin:  *)
(* counting a held piece, the pieces in play are never fewer than those    *)
(* the position started with less the captures made since.                 *)
(***************************************************************************)
C35_LiftedPieceNeverVanishes ==
    ~crashed =>
        PieceCount(state) + (IF Lifted THEN 1 ELSE 0) >= hist.count0 - hist.captures

(***************************************************************************)
(* C36.  While a promotion is pending (the move that reported it has been  *)
(* executed and complete_promotion has not run), no press picks a piece up *)
(* and no drop executes a move, the events queued before EVENT_PROMOTION   *)
(* is handled included.                                                    *)
(***************************************************************************)
C36_PendingPromotionFreezesBoard ==
    [][pending_promotion # None =>
          /\ ~(PressStep /\ drag_piece' # "")
          /\ ~MoveStep]_vars

(***************************************************************************)
(* C37.  Whenever no promotion is pending, no pawn stands on row 0 or on   *)
(* row 7: a pawn that reached its far rank, moved by the human or by the   *)
(* computer, has been replaced by a queen, rook, bishop or knight of its   *)
(* colour before the turn passed.                                          *)
(***************************************************************************)
C37_NoPawnOnFarRank ==
    (pending_promotion = None /\ ~crashed) =>
        \A y \in Idx : ~IsPawn(state[0][y]) /\ ~IsPawn(state[7][y])

=============================================================================
